---- MODULE Spec2Model ----
(***************************************************************************)
(* Scheduling and preemption engine of the healthcare triage agent:        *)
(* the slot inventory, the appointment ledger, the activity and audit      *)
(* logs (src/triage_agent/database.py) and Scheduler.book                  *)
(* (src/triage_agent/scheduler.py); the routing policy (policy.py), the    *)
(* hybrid reasoner (llm_reasoner.py) and the intake and nurse-queue        *)
(* operations of TriageService (service.py) on top of them.                *)
(*                                                                         *)
(* Times are minutes since midnight of day 0.  The store keeps a time as   *)
(* the text "%Y-%m-%d %H:%M:%S" and SQL compares these texts; the model    *)
(* keeps the text as its fields <<day, hour, minute>> and compares them    *)
(* field by field, the way the text comparison does.                       *)
(***************************************************************************)
EXTENDS Integers, Sequences, FiniteSets, TLC

VARIABLES
    slots,                \* table slots: id -> row
    appointments,         \* table appointments: row i has id i (AUTOINCREMENT)
    appointment_activity, \* table appointment_activity, in insertion order
    audit_log,            \* table audit_log, in insertion order
    config,               \* TriageConfig fields the scheduler reads
    clock,                \* the last value utc_now() returned
    call,                 \* arguments of the last Scheduler.book call
    pre,                  \* the store as it was when that call started
    result,               \* what that call returned (or raised)
    lock,                 \* the caller holding the store's write lock
    procs,                \* concurrent callers of book: position and locals
    patients,             \* table patients: row i has id i
    triage_events,        \* table triage_events: row i has id i
    routing_decisions,    \* table routing_decisions: row i has id i
    nurse_queue,          \* table nurse_queue: row i has id i
    dispatched,           \* events handed to the notifier, in order
    txn,                  \* the tables as the last transaction wrote them
    op,                   \* the last service or repository call and its outcome
    probe,                \* inputs of the reasoner and the routing policy
    answer,               \* what they returned for these inputs
    auth_users,           \* table auth_users: username -> row
    auth_refresh_sessions, \* table auth_refresh_sessions: row i has jti i
    auth_login_failures,  \* table auth_login_failures, in insertion order
    auth_log              \* the auth requests answered so far, in order

vars == <<slots, appointments, appointment_activity, audit_log, config,
          clock, call, pre, result, lock, procs, patients, triage_events,
          routing_decisions, nurse_queue, dispatched, txn, op, probe, answer,
          auth_users, auth_refresh_sessions, auth_login_failures, auth_log>>

\* What Scheduler.book and the repository's appointment calls never write.
intake_vars == <<patients, triage_events, routing_decisions, nurse_queue,
                 dispatched>>

policy_vars == <<probe, answer>>

auth_vars == <<auth_users, auth_refresh_sessions, auth_login_failures,
               auth_log>>

(***************************************************************************)
(* Bounds and input sets                                                   *)
(***************************************************************************)
NumSlots == 3

SlotIds == 1..NumSlots

Departments == {"Cardiology", "General Medicine"}

\* utc_now() readings: 10:00 and 12:00 of day 0.
Clocks == {600, 720}

\* Slot start times, 11:00 of day 0, 1, 3, 60 and 100.  Read at 10:00 of day
\* 0 the first is inside every urgency window, the second inside all but
\* EMERGENCY's, the third inside SOON's and ROUTINE's, the fourth inside the
\* fallback window only, the fifth beyond it; read at 12:00 the first is past.
SlotStarts == {660, 2100, 4980, 87060, 144660}

\* Callers that may be inside Scheduler.book at the same time.
Procs == {"p1", "p2"}

\* (patient_id, triage_event_id) pairs a caller may pass.
Cases == {[patient_id |-> 1, triage_event_id |-> 2]}

\* A note is the sequence of the parts the code joins with " | "; a part is a
\* text and, where the code formats a stored time into it, that time.
NotePart(text, at) == [text |-> text, at |-> at]

CallerNotes == {<<[text |-> "Auto-booked from intake.", at |-> <<>>]>>}

(***************************************************************************)
(* models.py                                                               *)
(***************************************************************************)
Urgency == {"EMERGENCY", "URGENT", "SOON", "ROUTINE"}

URGENCY_RANK ==
    [u \in Urgency |->
        CASE u = "ROUTINE" -> 1
          [] u = "SOON" -> 2
          [] u = "URGENT" -> 3
          [] u = "EMERGENCY" -> 4]

urgency_rank(value) == URGENCY_RANK[value]

RoutingAction == {"AUTO_BOOK", "QUEUE_REVIEW", "ESCALATE"}

DepartmentScore(department, score) == [department |-> department, score |-> score]

\* The fields of a TriageResult that the policy, the service and the hybrid
\* reasoner read or write.  confidence and scores are in hundredths; the
\* rationale is the sequence of the texts concatenated into it.
TriageResult(urgency, confidence, department_candidates, suggested_department, rationale, human_routing_flag) ==
    [urgency |-> urgency, confidence |-> confidence,
     department_candidates |-> department_candidates,
     suggested_department |-> suggested_department,
     rationale |-> rationale, human_routing_flag |-> human_routing_flag]

\* A result without candidates counted as fully certain.
top_department_score_EmptyIsCertain(triage_result) ==
    IF triage_result.department_candidates = <<>> THEN 100
    ELSE triage_result.department_candidates[1].score

\* Lines 52-56.
top_department_score(triage_result) ==
    IF triage_result.department_candidates = <<>> THEN 0
    ELSE triage_result.department_candidates[1].score

RoutingDecision(action, reason, confidence_threshold, department_threshold) ==
    [action |-> action, reason |-> reason,
     confidence_threshold |-> confidence_threshold,
     department_threshold |-> department_threshold]

(***************************************************************************)
(* config.py                                                               *)
(***************************************************************************)
urgency_windows_minutes ==
    [u \in Urgency |->
        CASE u = "EMERGENCY" -> 60 * 4
          [] u = "URGENT" -> 60 * 48
          [] u = "SOON" -> 60 * 24 * 7
          [] u = "ROUTINE" -> 60 * 24 * 28]

fallback_window_minutes == 60 * 24 * 90

department_providers ==
    [d \in Departments |->
        IF d = "Cardiology" THEN <<"Dr. Shah", "Dr. Park">>
        ELSE <<"Dr. Patel", "Dr. Reed">>]

(***************************************************************************)
(* database.py: time conversions                                           *)
(***************************************************************************)
NULL == 0

NoTime == <<>>

to_db_time(value) == <<value \div 1440, (value % 1440) \div 60, value % 60>>

parse_db_time(value) == value[1] * 1440 + value[2] * 60 + value[3]

\* Text comparison a <= b of two stored times.
TextLeq(a, b) ==
    \/ a[1] < b[1]
    \/ a[1] = b[1] /\ a[2] < b[2]
    \/ a[1] = b[1] /\ a[2] = b[2] /\ a[3] <= b[3]

TextLess(a, b) == TextLeq(a, b) /\ a # b

(***************************************************************************)
(* database.py: SQLiteRepository.  The operators take the store d (the     *)
(* four tables as seen inside the caller's transaction) and give the       *)
(* store after the call.  A call that raises gives ok = FALSE and an       *)
(* error text; what it wrote before raising is in db.                      *)
(***************************************************************************)
Store == [slots |-> slots, appointments |-> appointments,
          appointment_activity |-> appointment_activity,
          audit_log |-> audit_log, patients |-> patients,
          triage_events |-> triage_events,
          routing_decisions |-> routing_decisions,
          nurse_queue |-> nurse_queue]

AppointmentIds(d) == 1..Len(d.appointments)

\* fetchone() of a query that selects no row.
NoRow == [id |-> NULL]

get_slot(d, slot_id) ==
    IF slot_id \in DOMAIN d.slots THEN d.slots[slot_id] ELSE NoRow

\* The rows the query's WHERE clause selects.
AvailableBetween(d, department, start_at, end_at) ==
    {i \in DOMAIN d.slots :
        /\ d.slots[i].department = department
        /\ d.slots[i].status = "AVAILABLE"
        /\ TextLeq(to_db_time(start_at), d.slots[i].start_at)
        /\ TextLeq(d.slots[i].start_at, to_db_time(end_at))}

\* ORDER BY start_at ASC LIMIT 1: the rows the query may return (SQL leaves
\* the order of rows with equal start_at open); empty when it returns none.
EarliestOf(d, rows) ==
    {i \in rows :
        \A j \in rows : TextLeq(d.slots[i].start_at, d.slots[j].start_at)}

\* The query without its ORDER BY: any row the WHERE clause selects.
find_available_slot_unordered(d, department, start_at, end_at) ==
    AvailableBetween(d, department, start_at, end_at)

\* The search started at the end of the window it is given.
find_available_slot_FromWindowEnd(d, department, start_at, end_at) ==
    EarliestOf(d, AvailableBetween(d, department, end_at, end_at))

find_available_slot(d, department, start_at, end_at) ==
    EarliestOf(d, AvailableBetween(d, department, start_at, end_at))

\* The query with end_at never applied.
find_next_available_slot_open_ended(d, department, start_at, end_at) ==
    EarliestOf(d,
        {i \in DOMAIN d.slots :
            /\ d.slots[i].department = department
            /\ d.slots[i].status = "AVAILABLE"
            /\ TextLeq(to_db_time(start_at), d.slots[i].start_at)})

\* The query with start_at never applied.
find_next_available_slot_any_start(d, department, start_at, end_at) ==
    EarliestOf(d,
        {i \in DOMAIN d.slots :
            /\ d.slots[i].department = department
            /\ d.slots[i].status = "AVAILABLE"
            /\ (end_at # NULL => TextLeq(d.slots[i].start_at, to_db_time(end_at)))})

find_next_available_slot(d, department, start_at, end_at) ==
    EarliestOf(d,
        {i \in DOMAIN d.slots :
            /\ d.slots[i].department = department
            /\ d.slots[i].status = "AVAILABLE"
            /\ TextLeq(to_db_time(start_at), d.slots[i].start_at)
            /\ (end_at # NULL => TextLeq(d.slots[i].start_at, to_db_time(end_at)))})

\* The sort with start_at as its only key.
CandidateKeyLeq_StartOnly(d, a, b) ==
    TextLeq(d.slots[d.appointments[a].slot_id].start_at,
            d.slots[d.appointments[b].slot_id].start_at)

\* Sort key of a candidate: (urgency_rank, start_at).
CandidateKeyLeq(d, a, b) ==
    LET ra == urgency_rank(d.appointments[a].urgency)
        rb == urgency_rank(d.appointments[b].urgency)
        sa == d.slots[d.appointments[a].slot_id].start_at
        sb == d.slots[d.appointments[b].slot_id].start_at
    IN  \/ ra < rb
        \/ ra = rb /\ TextLeq(sa, sb)

\* The join without its condition on the department.
PreemptableRows_AnyDepartment(d, department, window_end) ==
    {a \in AppointmentIds(d) :
        /\ d.appointments[a].slot_id \in DOMAIN d.slots
        /\ d.appointments[a].status = "BOOKED"
        /\ TextLeq(d.slots[d.appointments[a].slot_id].start_at,
                   to_db_time(window_end))}

\* Lines 483-501: the rows of the join.
PreemptableRows(d, department, window_end) ==
    {a \in AppointmentIds(d) :
        /\ d.appointments[a].slot_id \in DOMAIN d.slots
        /\ d.appointments[a].status = "BOOKED"
        /\ d.appointments[a].department = department
        /\ TextLeq(d.slots[d.appointments[a].slot_id].start_at,
                   to_db_time(window_end))}

\* The filter with row_rank <= higher_rank.
find_preemptable_appointment_equal_rank(d, department, higher_urgency, window_end) ==
    LET rows == PreemptableRows(d, department, window_end)
        higher_rank == urgency_rank(higher_urgency)
        candidates ==
            {a \in rows : urgency_rank(d.appointments[a].urgency) <= higher_rank}
    IN  {a \in candidates : \A b \in candidates : CandidateKeyLeq(d, a, b)}

\* The appointments candidates[0] may be after the sort; empty for None.
find_preemptable_appointment(d, department, higher_urgency, window_end) ==
    LET rows == PreemptableRows(d, department, window_end)
        higher_rank == urgency_rank(higher_urgency)
        candidates ==
            {a \in rows : urgency_rank(d.appointments[a].urgency) < higher_rank}
    IN  {a \in candidates : \A b \in candidates : CandidateKeyLeq(d, a, b)}

\* The log keeping its newest record only.
log_appointment_activity_Overwrites(d, appointment_id, activity_type, details) ==
    [d EXCEPT !.appointment_activity =
        <<[appointment_id |-> appointment_id,
           activity_type |-> activity_type,
           details |-> details]>>]

log_appointment_activity(d, appointment_id, activity_type, details) ==
    [d EXCEPT !.appointment_activity =
        Append(@, [appointment_id |-> appointment_id,
                   activity_type |-> activity_type,
                   details |-> details])]

audit(d, entity_type, entity_id, action, payload) ==
    [d EXCEPT !.audit_log =
        Append(@, [entity_type |-> entity_type, entity_id |-> entity_id,
                   action |-> action, payload |-> payload])]

\* The UPDATE without "AND status = 'AVAILABLE'".
SlotFlipRowcount_Unconditional(d, slot_id) ==
    IF slot_id \in DOMAIN d.slots THEN 1 ELSE 0

\* Lines 533-540: rowcount of UPDATE slots SET status = 'BOOKED' WHERE id = ?
\* AND status = 'AVAILABLE'.
SlotFlipRowcount(d, slot_id) ==
    IF slot_id \in DOMAIN d.slots /\ d.slots[slot_id].status = "AVAILABLE"
    THEN 1 ELSE 0

\* Lines 107-109 of the schema, with PRAGMA foreign_keys = ON (line 35): the
\* INSERT INTO appointments needs its patient, triage event and slot rows.
AppointmentForeignKeysHold(d, row) ==
    /\ row.patient_id \in 1..Len(d.patients)
    /\ row.triage_event_id \in 1..Len(d.triage_events)
    /\ row.slot_id \in DOMAIN d.slots

\* row: the keyword arguments patient_id, triage_event_id, urgency,
\* department, provider, slot_id, note, preempted_from_appointment_id.
create_appointment(d, row) ==
    IF SlotFlipRowcount(d, row.slot_id) # 1
    THEN [ok |-> FALSE, error |-> "Slot is no longer available.",
          db |-> d, appointment_id |-> NULL]
    ELSE IF ~AppointmentForeignKeysHold(d, row)
    THEN [ok |-> FALSE, error |-> "FOREIGN KEY constraint failed",
          db |-> [d EXCEPT !.slots[row.slot_id].status = "BOOKED"],
          appointment_id |-> NULL]
    ELSE
        LET appointment_id == Len(d.appointments) + 1
            d1 == [d EXCEPT
                    !.slots[row.slot_id].status = "BOOKED",
                    !.slots[row.slot_id].appointment_id = appointment_id,
                    !.appointments = Append(@, row @@ [status |-> "BOOKED"])]
            d2 == log_appointment_activity(d1, appointment_id, "BOOKED",
                    [slot_id |-> row.slot_id, note |-> row.note,
                     urgency |-> row.urgency])
            d3 == audit(d2, "appointments", appointment_id, "BOOKED",
                    [slot_id |-> row.slot_id, department |-> row.department,
                     urgency |-> row.urgency,
                     preempted_from_appointment_id |->
                         row.preempted_from_appointment_id])
        IN  [ok |-> TRUE, error |-> "", db |-> d3,
             appointment_id |-> appointment_id]

\* The move with the second UPDATE missing: the new slot is not taken.
UpdateSlotsForMove_OnlyFrees(d, appointment_id, old_slot_id, new_slot_id) ==
    [d EXCEPT
        !.slots[old_slot_id].status = "AVAILABLE",
        !.slots[old_slot_id].appointment_id = NULL]

\* Lines 631-646: the old slot is freed, the new slot is taken.
UpdateSlotsForMove(d, appointment_id, old_slot_id, new_slot_id) ==
    LET freed == [d EXCEPT
                    !.slots[old_slot_id].status = "AVAILABLE",
                    !.slots[old_slot_id].appointment_id = NULL]
    IN  [freed EXCEPT
            !.slots[new_slot_id].status = "BOOKED",
            !.slots[new_slot_id].appointment_id = appointment_id]

\* The move with the appointment's slot_id left as it was.
UpdateAppointmentForMove_KeepsSlotId(d, appointment_id, new_slot_id, note) ==
    [d EXCEPT
        !.appointments[appointment_id].provider = d.slots[new_slot_id].provider,
        !.appointments[appointment_id].note = @ \o note]

\* The move with the appointment's provider left as it was.
UpdateAppointmentForMove_KeepsProvider(d, appointment_id, new_slot_id, note) ==
    [d EXCEPT
        !.appointments[appointment_id].slot_id = new_slot_id,
        !.appointments[appointment_id].note = @ \o note]

\* The move marking the appointment as RESCHEDULED.
UpdateAppointmentForMove_MarksRescheduled(d, appointment_id, new_slot_id, note) ==
    [d EXCEPT
        !.appointments[appointment_id].slot_id = new_slot_id,
        !.appointments[appointment_id].provider = d.slots[new_slot_id].provider,
        !.appointments[appointment_id].note = @ \o note,
        !.appointments[appointment_id].status = "RESCHEDULED"]

\* Lines 647-659: the appointment row follows to the new slot.  The note is
\* (old_note + " | " + note).strip(" |").
UpdateAppointmentForMove(d, appointment_id, new_slot_id, note) ==
    [d EXCEPT
        !.appointments[appointment_id].slot_id = new_slot_id,
        !.appointments[appointment_id].provider = d.slots[new_slot_id].provider,
        !.appointments[appointment_id].note = @ \o note]

move_appointment_to_slot(d, appointment_id, new_slot_id, note) ==
    IF ~(appointment_id \in AppointmentIds(d)
         /\ d.appointments[appointment_id].status = "BOOKED")
    THEN [ok |-> FALSE, error |-> "Booked appointment not found for move.",
          db |-> d]
    ELSE IF new_slot_id \notin DOMAIN d.slots
    THEN [ok |-> FALSE, error |-> "Target slot not found for move.", db |-> d]
    ELSE IF d.slots[new_slot_id].status # "AVAILABLE"
    THEN [ok |-> FALSE, error |-> "Target slot is not available for move.",
          db |-> d]
    ELSE
        LET old_slot_id == d.appointments[appointment_id].slot_id
            d1 == UpdateAppointmentForMove(
                    UpdateSlotsForMove(d, appointment_id, old_slot_id,
                                       new_slot_id),
                    appointment_id, new_slot_id, note)
            d2 == log_appointment_activity(d1, appointment_id, "RESCHEDULED",
                    [old_slot_id |-> old_slot_id, new_slot_id |-> new_slot_id,
                     note |-> note])
            d3 == audit(d2, "appointments", appointment_id, "RESCHEDULED",
                    [old_slot_id |-> old_slot_id, new_slot_id |-> new_slot_id,
                     note |-> note])
        IN  [ok |-> TRUE, error |-> "", db |-> d3]

(***************************************************************************)
(* scheduler.py: Scheduler.book as one transaction.  BookOutcomes is the    *)
(* set of (store, result) pairs the call can end with from store d; it has  *)
(* more than one element only where a query may return either of several    *)
(* rows of equal rank.  An outcome has the store after the call (db), the    *)
(* store as the transaction had written it when it ended (written) and the  *)
(* result.                                                                  *)
(***************************************************************************)
\* The with block committing whatever was written when the error came.
RolledBack_Commits(before, after) == after

\* Line 31: leaving "with ... as conn" by an exception rolls the transaction
\* back.
RolledBack(before, after) == before

AppointmentResult(status, appointment_id, slot_id, slot_start, note, preempted_id) ==
    [status |-> status, appointment_id |-> appointment_id,
     slot_id |-> slot_id, slot_start |-> slot_start, note |-> note,
     preempted_appointment_id |-> preempted_id]

Escalated(d, text) ==
    [db |-> d, written |-> d,
     result |-> AppointmentResult("ESCALATED", NULL, NULL, NoTime,
                                  <<NotePart(text, NoTime)>>, NULL)]

\* The error leaves book; before is the store when the call began, after
\* what the call had written.
Raised(before, after, text) ==
    [db |-> RolledBack(before, after), written |-> after,
     result |-> AppointmentResult("RAISED", NULL, NULL, NoTime,
                                  <<NotePart(text, NoTime)>>, NULL)]

\* Lines 39-56 and 65-83: book the slot found and return `status`.
BookSlot(d, status, c, slot_id, note) ==
    LET made == create_appointment(d,
                    [patient_id |-> c.patient_id,
                     triage_event_id |-> c.triage_event_id,
                     urgency |-> c.urgency,
                     department |-> c.department,
                     provider |-> d.slots[slot_id].provider,
                     slot_id |-> slot_id,
                     note |-> note,
                     preempted_from_appointment_id |-> NULL])
    IN  IF ~made.ok THEN Raised(d, made.db, made.error)
        ELSE [db |-> made.db, written |-> made.db,
              result |-> AppointmentResult(status, made.appointment_id,
                            slot_id, d.slots[slot_id].start_at, note, NULL)]

\* Lines 119-169: move the candidate to the replacement slot, book its
\* former slot for the incoming case, log both sides.
Preempt(d, c, candidate, candidate_slot_id, replacement_slot) ==
    LET moved == move_appointment_to_slot(d, candidate, replacement_slot,
                    <<NotePart("Preempted by higher-priority case; auto-rescheduled to",
                               d.slots[replacement_slot].start_at)>>)
        preempted_slot == get_slot(moved.db, candidate_slot_id)
        made == create_appointment(moved.db,
                    [patient_id |-> c.patient_id,
                     triage_event_id |-> c.triage_event_id,
                     urgency |-> c.urgency,
                     department |-> c.department,
                     provider |-> preempted_slot.provider,
                     slot_id |-> preempted_slot.id,
                     note |-> c.note \o
                                <<NotePart("preemption applied", NoTime)>>,
                     preempted_from_appointment_id |-> candidate])
        d1 == log_appointment_activity(made.db, candidate, "PREEMPTED_OUT",
                    [by_appointment_id |-> made.appointment_id,
                     new_slot_id |-> replacement_slot])
        d2 == log_appointment_activity(d1, made.appointment_id, "PREEMPTED_IN",
                    [preempted_appointment_id |-> candidate,
                     slot_id |-> preempted_slot.id])
    IN  IF ~moved.ok THEN Raised(d, moved.db, moved.error)
        ELSE IF preempted_slot = NoRow
        THEN Raised(d, moved.db, "Preempted slot lookup failed.")
        ELSE IF ~made.ok THEN Raised(d, made.db, made.error)
        ELSE [db |-> d2, written |-> d2,
              result |-> AppointmentResult("PREEMPTED", made.appointment_id,
                            preempted_slot.id, preempted_slot.start_at,
                            <<NotePart("Booked by preempting a lower-priority case.",
                                       NoTime)>>,
                            candidate)]

\* The fallback branch taken for ROUTINE only.
FallsBack_RoutineOnly(urgency) == urgency = "ROUTINE"

\* The guard with the caller's flag not looked at.
PreemptionAllowed_IgnoresCaller(cfg, c) == cfg.preemption_enabled

\* Line 58: the urgencies that fall back instead of preempting.
FallsBack(urgency) == urgency \in {"SOON", "ROUTINE"}

\* Line 89.
PreemptionAllowed(cfg, c) == c.allow_preemption /\ cfg.preemption_enabled

\* Lines 33-117: what the searches find.  A plan names the branch taken and
\* the rows read: the slot to book (for PREEMPTED the replacement slot), the
\* candidate appointment and the slot_id read with it.
BookPlan(kind, slot_id, candidate, candidate_slot_id, text) ==
    [kind |-> kind, slot_id |-> slot_id, candidate |-> candidate,
     candidate_slot_id |-> candidate_slot_id, text |-> text]

BookPlans(d, cfg, c) ==
    LET now == c.now
        window_end == now + urgency_windows_minutes[c.urgency]
        fallback_end == now + fallback_window_minutes
        slot == find_available_slot(d, c.department, now, window_end)
        fallback_slot ==
            find_next_available_slot(d, c.department, window_end, fallback_end)
        candidate ==
            find_preemptable_appointment(d, c.department, c.urgency, window_end)
        replacement_slot ==
            find_next_available_slot(d, c.department, window_end, fallback_end)
    IN  IF slot # {}
        THEN {BookPlan("BOOKED", s, NULL, NULL, "") : s \in slot}
        ELSE IF FallsBack(c.urgency)
        THEN IF fallback_slot # {}
             THEN {BookPlan("BOOKED_FALLBACK", s, NULL, NULL, "") :
                   s \in fallback_slot}
             ELSE {BookPlan("ESCALATED", NULL, NULL, NULL,
                     "No available slots found within fallback window.")}
        ELSE IF ~PreemptionAllowed(cfg, c)
        THEN {BookPlan("ESCALATED", NULL, NULL, NULL,
                "No available slot in urgency window and preemption disabled.")}
        ELSE IF candidate = {}
        THEN {BookPlan("ESCALATED", NULL, NULL, NULL,
                "No lower-priority appointment available for preemption.")}
        ELSE IF replacement_slot = {}
        THEN {BookPlan("ESCALATED", NULL, NULL, NULL,
                "Preemption blocked: could not safely reschedule the preempted patient.")}
        ELSE {BookPlan("PREEMPTED", r, a, d.appointments[a].slot_id, "") :
              a \in candidate, r \in replacement_slot}

\* Lines 39-56, 65-87 and 119-169: the writes and the return of a plan.
ApplyPlan(d, c, plan) ==
    CASE plan.kind = "BOOKED" ->
            BookSlot(d, "BOOKED", c, plan.slot_id, c.note)
      [] plan.kind = "BOOKED_FALLBACK" ->
            BookSlot(d, "BOOKED_FALLBACK", c, plan.slot_id,
                c.note \o <<NotePart("booked outside ideal urgency window",
                                     NoTime)>>)
      [] plan.kind = "PREEMPTED" ->
            Preempt(d, c, plan.candidate, plan.candidate_slot_id, plan.slot_id)
      [] OTHER -> Escalated(d, plan.text)

BookOutcomes(d, cfg, c) ==
    {ApplyPlan(d, c, plan) : plan \in BookPlans(d, cfg, c)}

NoCall == [now |-> NULL]

NoResult == [status |-> "NONE"]

NoOp == [name |-> "none"]

\* The arguments of a call for one of `cases`, with the utc_now() reading of
\* its first line.
CallsOf(cases) ==
    {[now |-> now, patient_id |-> cs.patient_id,
      triage_event_id |-> cs.triage_event_id, urgency |-> urgency,
      department |-> department, note |-> note,
      allow_preemption |-> allow_preemption] :
        now \in {t \in Clocks : t >= clock}, cs \in cases,
        urgency \in Urgency, department \in Departments,
        note \in CallerNotes, allow_preemption \in BOOLEAN}

BookCalls == CallsOf(Cases)

\* Scheduler.book(c), from its first line to its return or raise.
BookOf(c) ==
    \E out \in BookOutcomes(Store, config, c) :
        /\ slots' = out.db.slots
        /\ appointments' = out.db.appointments
        /\ appointment_activity' = out.db.appointment_activity
        /\ audit_log' = out.db.audit_log
        /\ clock' = c.now
        /\ call' = c
        /\ pre' = Store
        /\ txn' = out.written
        /\ result' = out.result
        /\ UNCHANGED <<auth_vars, config, lock, procs, intake_vars, op, policy_vars>>

Book ==
    /\ call = NoCall
    /\ op = NoOp
    /\ \E c \in BookCalls : BookOf(c)

\* The caller has taken the result; the program is idle again.
Return ==
    /\ call # NoCall \/ op # NoOp
    /\ call' = NoCall
    /\ result' = NoResult
    /\ op' = NoOp
    /\ pre' = Store
    /\ txn' = Store
    /\ UNCHANGED <<auth_vars, slots, appointments, appointment_activity, audit_log,
                   config, clock, lock, procs, intake_vars, policy_vars>>

(***************************************************************************)
(* The state after construction: an inventory of AVAILABLE slots (as        *)
(* seed_slots_if_empty and create_slot's defaults make them), no            *)
(* appointment, empty logs.  As in the seeded schedule no two slots of a    *)
(* department start at the same time; slot ids are taken in order of start  *)
(* time and the department of slot 1 is called Cardiology (ids and          *)
(* department names are labels).                                            *)
(***************************************************************************)
SlotRow(i, department, start) ==
    [id |-> i, department |-> department,
     provider |-> department_providers[department]
                    [(i % Len(department_providers[department])) + 1],
     start_at |-> to_db_time(start), status |-> "AVAILABLE",
     appointment_id |-> NULL]

Inventories ==
    {[i \in SlotIds |-> SlotRow(i, dep[i], st[i])] :
        dep \in {f \in [SlotIds -> Departments] : f[1] = "Cardiology"},
        st \in {f \in [SlotIds -> SlotStarts] :
                    \A i, j \in SlotIds : i < j => f[i] < f[j]}}

NoProc == "none"

NoPlan == BookPlan("NONE", NULL, NULL, NULL, "")

NoStore == [slots |-> <<>>, appointments |-> <<>>,
            appointment_activity |-> <<>>, audit_log |-> <<>>,
            patients |-> <<>>, triage_events |-> <<>>,
            routing_decisions |-> <<>>, nurse_queue |-> <<>>]

IdleProc == [pc |-> "idle", c |-> NoCall, plan |-> NoPlan, seen |-> NoStore,
             work |-> [db |-> NoStore, written |-> NoStore,
                       result |-> NoResult]]

\* create_patient and create_triage_event rows (database.py lines 200-251).
PatientRow(age) == [age |-> age]

TriageEventRow(patient_id, triage_result) ==
    [patient_id |-> patient_id] @@ triage_result

\* The patient and the triage events of Cases, already on file.
RegisteredPatients == <<PatientRow(58)>>

RegisteredTriageEvents ==
    LET on_file == TriageResult("ROUTINE", 90,
                       <<DepartmentScore("Cardiology", 90)>>, "Cardiology",
                       <<"heuristic">>, FALSE)
    IN  <<TriageEventRow(1, on_file), TriageEventRow(1, on_file)>>

NoProbe == [kind |-> "none"]

NoAnswer == [kind |-> "none"]

\* What every specification starts with apart from slots, config and the
\* patients on file: empty ledgers, nothing in progress.
\* backend/app/auth.py lines 946-972 and 728-749: the seed users as
\* _init_storage inserts them, with TRIAGE_AUTH_FORCE_CHANGE_DEFAULTS at its
\* default (on).  A password is kept as the text its hash was made from.
Usernames == {"admin", "nurse", "ops"}

SeededUsers ==
    [u \in Usernames |->
        [role |-> CASE u = "admin" -> "admin"
                    [] u = "nurse" -> "nurse"
                    [] u = "ops" -> "operations",
         password |-> u \o "123",
         password_change_required |-> TRUE,
         onboarding_completed |-> FALSE]]

InitTables ==
    /\ appointments = <<>>
    /\ appointment_activity = <<>>
    /\ audit_log = <<>>
    /\ routing_decisions = <<>>
    /\ nurse_queue = <<>>
    /\ dispatched = <<>>
    /\ clock = CHOOSE t \in Clocks : \A u \in Clocks : t <= u
    /\ call = NoCall
    /\ pre = Store
    /\ txn = Store
    /\ result = NoResult
    /\ op = NoOp
    /\ lock = NoProc
    /\ procs = [p \in Procs |-> IdleProc]

InitStore ==
    /\ InitTables
    /\ auth_users = SeededUsers
    /\ auth_refresh_sessions = <<>>
    /\ auth_login_failures = <<>>
    /\ auth_log = <<>>

InitIdle ==
    /\ InitStore
    /\ probe = NoProbe
    /\ answer = NoAnswer

Init ==
    /\ slots \in Inventories
    /\ config \in [preemption_enabled : BOOLEAN]
    /\ patients = RegisteredPatients
    /\ triage_events = RegisteredTriageEvents
    /\ InitIdle

Next == Book \/ Return

Spec == Init /\ [][Next]_vars

(***************************************************************************)
(* Calls that raise.  Scheduler.book and create_appointment take ids from   *)
(* their caller; with foreign keys enforced an appointment for a patient    *)
(* that is not on file fails at its INSERT, after the slot was flipped and, *)
(* in a preemption, after the displaced appointment was moved.              *)
(* test_scheduler.py line 113 calls create_appointment on its own.          *)
(***************************************************************************)
\* A case whose patient is not on file.
UnregisteredCases == {[patient_id |-> 2, triage_event_id |-> 2]}

FaultCalls ==
    {c \in CallsOf(Cases \cup UnregisteredCases) :
        c.allow_preemption /\ c.department = "Cardiology"}

FaultBook ==
    /\ call = NoCall
    /\ op = NoOp
    /\ \E c \in FaultCalls : BookOf(c)

\* create_appointment with conn=None: _managed_conn opens a connection of
\* its own, which commits when the call returns and rolls back when it
\* raises.
CreateAppointment ==
    /\ call = NoCall
    /\ op = NoOp
    /\ \E slot_id \in SlotIds, cs \in Cases, urgency \in {"ROUTINE"} :
        LET made == create_appointment(Store,
                        [patient_id |-> cs.patient_id,
                         triage_event_id |-> cs.triage_event_id,
                         urgency |-> urgency,
                         department |-> slots[slot_id].department,
                         provider |-> slots[slot_id].provider,
                         slot_id |-> slot_id,
                         note |-> <<NotePart("low priority", NoTime)>>,
                         preempted_from_appointment_id |-> NULL])
            after == IF made.ok THEN made.db ELSE RolledBack(Store, made.db)
        IN  /\ slots' = after.slots
            /\ appointments' = after.appointments
            /\ appointment_activity' = after.appointment_activity
            /\ audit_log' = after.audit_log
            /\ pre' = Store
            /\ txn' = made.db
            /\ op' = [name |-> "create_appointment", slot_id |-> slot_id,
                      ok |-> made.ok, error |-> made.error,
                      appointment_id |-> made.appointment_id]
            /\ UNCHANGED <<auth_vars, config, clock, call, result, lock, procs,
                           intake_vars, policy_vars>>

FaultNext == FaultBook \/ CreateAppointment \/ Return

\* One department's inventory, preemption enabled as configured by default.
FaultInit ==
    /\ slots \in {inv \in Inventories :
                    \A i \in SlotIds : inv[i].department = "Cardiology"}
    /\ config = [preemption_enabled |-> TRUE]
    /\ patients = RegisteredPatients
    /\ triage_events = RegisteredTriageEvents
    /\ InitIdle

FaultSpec == FaultInit /\ [][FaultNext]_vars

(***************************************************************************)
(* Concurrent callers.  Each call of book opens its own connection and      *)
(* runs BEGIN IMMEDIATE before its first search (scheduler.py lines 31-32); *)
(* SQLite grants the write lock to one connection at a time and a           *)
(* connection that cannot get it within the connect timeout raises.  The    *)
(* holder's statements run one step at a time: the searches, the writes,    *)
(* the commit (or rollback) at the end of the with block.  The writes stay  *)
(* in the holder's transaction (work) until the commit.                     *)
(***************************************************************************)
\* The calls the service makes (allow_preemption=True), for the department
\* the callers contend for, each with its own reading of the clock.
ConcCalls ==
    {c \in BookCalls :
        c.allow_preemption /\ c.department = "Cardiology"}

\* Line 26-29: the call starts and reads the clock.
ConcCall(p) ==
    /\ procs[p].pc = "idle"
    /\ \E c \in ConcCalls :
          /\ procs' = [procs EXCEPT ![p] = [IdleProc EXCEPT !.pc = "called",
                                                            !.c = c]]
          /\ clock' = c.now
    /\ UNCHANGED <<auth_vars, slots, appointments, appointment_activity, audit_log,
                   config, call, pre, result, lock, intake_vars, txn, op,
                   policy_vars>>

\* A plain BEGIN: deferred, it takes no lock.
CanBeginImmediate_Deferred == TRUE

\* BEGIN IMMEDIATE succeeds when no other connection holds the write lock.
CanBeginImmediate == lock = NoProc

\* Line 32.
ConcBegin(p) ==
    /\ procs[p].pc = "called"
    /\ CanBeginImmediate
    /\ lock' = p
    /\ procs' = [procs EXCEPT ![p].pc = "locked"]
    /\ UNCHANGED <<auth_vars, slots, appointments, appointment_activity, audit_log,
                   config, clock, call, pre, result, intake_vars, txn, op,
                   policy_vars>>

\* Line 32 while another connection holds the lock, after the 30 s connect
\* timeout (database.py line 33): "database is locked" is raised and the call
\* ends without having read or written anything.
ConcBusy(p) ==
    /\ procs[p].pc = "called"
    /\ lock \notin {NoProc, p}
    /\ procs' = [procs EXCEPT ![p] = IdleProc]
    /\ UNCHANGED <<auth_vars, slots, appointments, appointment_activity, audit_log,
                   config, clock, call, pre, result, lock, intake_vars, txn,
                   op, policy_vars>>

\* Lines 33-117: the searches.
ConcSearch(p) ==
    /\ procs[p].pc = "locked"
    /\ \E plan \in BookPlans(Store, config, procs[p].c) :
          procs' = [procs EXCEPT ![p].pc = "found", ![p].plan = plan,
                                 ![p].seen = Store]
    /\ UNCHANGED <<auth_vars, slots, appointments, appointment_activity, audit_log,
                   config, clock, call, pre, result, lock, intake_vars, txn,
                   op, policy_vars>>

\* Lines 39-56, 65-87, 119-169: the writes, inside the transaction.
ConcWrite(p) ==
    /\ procs[p].pc = "found"
    /\ procs' = [procs EXCEPT
                    ![p].pc = "written",
                    ![p].work = ApplyPlan(Store, procs[p].c, procs[p].plan)]
    /\ UNCHANGED <<auth_vars, slots, appointments, appointment_activity, audit_log,
                   config, clock, call, pre, result, lock, intake_vars, txn,
                   op, policy_vars>>

\* Line 31, leaving the with block: commit (after a raise: rollback, work.db
\* is then the store as it was), the lock is released, the call returns.
ConcCommit(p) ==
    /\ procs[p].pc = "written"
    /\ slots' = procs[p].work.db.slots
    /\ appointments' = procs[p].work.db.appointments
    /\ appointment_activity' = procs[p].work.db.appointment_activity
    /\ audit_log' = procs[p].work.db.audit_log
    /\ lock' = IF lock = p THEN NoProc ELSE lock
    /\ procs' = [procs EXCEPT ![p] = IdleProc]
    /\ UNCHANGED <<auth_vars, config, clock, call, pre, result, intake_vars, txn, op,
                   policy_vars>>

ConcInventories ==
    {inv \in Inventories : \A i \in SlotIds : inv[i].department = "Cardiology"}

ConcInit ==
    /\ slots \in ConcInventories
    /\ config = [preemption_enabled |-> TRUE]
    /\ patients = RegisteredPatients
    /\ triage_events = RegisteredTriageEvents
    /\ InitIdle

ConcNext ==
    \E p \in Procs :
        \/ ConcCall(p)
        \/ ConcBegin(p)
        \/ ConcBusy(p)
        \/ ConcSearch(p)
        \/ ConcWrite(p)
        \/ ConcCommit(p)

ConcSpec == ConcInit /\ [][ConcNext]_vars

(***************************************************************************)
(* config.py: the TriageConfig defaults the policy and the service read.    *)
(* Thresholds, confidences and scores are in hundredths.                    *)
(***************************************************************************)
DefaultConfig ==
    [notify_on_urgencies |-> <<"EMERGENCY", "URGENT">>,
     auto_book_confidence_threshold |-> 80,
     department_score_threshold |-> 75,
     always_route_when_model_requests_human |-> TRUE,
     auto_book_high_urgency |-> TRUE,
     preemption_enabled |-> TRUE]

(***************************************************************************)
(* policy.py: RoutingPolicy.decide.  An optional argument is <<>> for None  *)
(* and <<v>> for the value v.                                               *)
(***************************************************************************)
\* The configured default whatever the caller passed.
Override_IgnoresCaller(value, default) == default

\* Lines 22-41: "default if value is None else value".
Override(value, default) == IF value = <<>> THEN default ELSE value[1]

\* QUEUE_REVIEW whatever the urgency.
HumanRouteAction_AlwaysQueue(urgency) == "QUEUE_REVIEW"

\* Lines 52-56 and 65-69.
HumanRouteAction(urgency) ==
    IF urgency = "EMERGENCY" THEN "ESCALATE" ELSE "QUEUE_REVIEW"

\* args: the keyword arguments confidence_threshold, department_threshold,
\* always_route_when_model_requests_human, auto_book_high_urgency.
decide(cfg, triage_result, args) ==
    LET confidence_threshold ==
            Override(args.confidence_threshold,
                     cfg.auto_book_confidence_threshold)
        department_threshold ==
            Override(args.department_threshold, cfg.department_score_threshold)
        always_route_when_model_requests_human ==
            Override(args.always_route_when_model_requests_human,
                     cfg.always_route_when_model_requests_human)
        auto_book_high_urgency ==
            Override(args.auto_book_high_urgency, cfg.auto_book_high_urgency)
    IN  IF triage_result.urgency = "EMERGENCY" /\ ~auto_book_high_urgency
        THEN RoutingDecision("ESCALATE",
                "Emergency cases are configured for mandatory human escalation.",
                confidence_threshold, department_threshold)
        ELSE IF always_route_when_model_requests_human
                /\ triage_result.human_routing_flag
        THEN RoutingDecision(HumanRouteAction(triage_result.urgency),
                "Model requested human routing.",
                confidence_threshold, department_threshold)
        ELSE IF triage_result.confidence < confidence_threshold
        THEN RoutingDecision(HumanRouteAction(triage_result.urgency),
                "Confidence below policy threshold.",
                confidence_threshold, department_threshold)
        ELSE IF top_department_score(triage_result) < department_threshold
        THEN RoutingDecision("QUEUE_REVIEW",
                "Department certainty below policy threshold.",
                confidence_threshold, department_threshold)
        ELSE RoutingDecision("AUTO_BOOK",
                "All routing policy thresholds satisfied.",
                confidence_threshold, department_threshold)

\* decide storing the thresholds it used in the policy's configuration.
DecideEffect_StoresThresholds(cfg, triage_result, args) ==
    [config |-> [cfg EXCEPT
                    !.auto_book_confidence_threshold =
                        Override(args.confidence_threshold, @),
                    !.department_score_threshold =
                        Override(args.department_threshold, @)],
     triage_result |-> triage_result]

\* Lines 22-41: decide assigns to its own local names only; the policy's
\* configuration and the triage result are after the call what they were.
DecideEffect(cfg, triage_result, args) ==
    [config |-> cfg, triage_result |-> triage_result]

(***************************************************************************)
(* The policy on its own: a triage result, the caller's arguments and the   *)
(* configuration are drawn at the start and decide is evaluated on them,    *)
(* up to MaxEvaluations times.                                              *)
(***************************************************************************)
MaxEvaluations == 2

Confidences == {79, 80, 95}

CandidateLists ==
    {<<>>,
     <<DepartmentScore("Cardiology", 74), DepartmentScore("General Medicine", 20)>>,
     <<DepartmentScore("Cardiology", 75), DepartmentScore("General Medicine", 25)>>}

TriageResults ==
    {TriageResult(urgency, confidence, candidates, "Cardiology",
                  <<"test">>, flag) :
        urgency \in Urgency, confidence \in Confidences,
        candidates \in CandidateLists, flag \in BOOLEAN}

DecideArgs ==
    [confidence_threshold : {<<>>, <<95>>},
     department_threshold : {<<>>, <<74>>},
     always_route_when_model_requests_human : {<<>>, <<TRUE>>, <<FALSE>>},
     auto_book_high_urgency : {<<>>, <<TRUE>>, <<FALSE>>}]

PolicyConfigs ==
    {[DefaultConfig EXCEPT !.always_route_when_model_requests_human = a,
                           !.auto_book_high_urgency = h] : a, h \in BOOLEAN}

PolicyInit ==
    /\ slots = CHOOSE inv \in Inventories : TRUE
    /\ config \in PolicyConfigs
    /\ patients = RegisteredPatients
    /\ triage_events = RegisteredTriageEvents
    /\ InitStore
    /\ probe \in [kind : {"decide"}, triage_result : TriageResults,
                   args : DecideArgs]
    /\ answer = NoAnswer

\* One evaluation of policy.decide(triage_result, **args).  The answer keeps
\* the decisions returned so far and the configuration and triage result
\* the first evaluation was given.
Decide ==
    /\ probe.kind = "decide"
    /\ LET done == IF answer = NoAnswer THEN <<>> ELSE answer.decisions
           effect == DecideEffect(config, probe.triage_result, probe.args)
       IN  /\ Len(done) < MaxEvaluations
           /\ answer' =
                 [kind |-> "decisions",
                  decisions |->
                     Append(done,
                            decide(config, probe.triage_result, probe.args)),
                  config |-> IF answer = NoAnswer THEN config
                             ELSE answer.config,
                  triage_result |-> IF answer = NoAnswer
                                    THEN probe.triage_result
                                    ELSE answer.triage_result]
           /\ config' = effect.config
           /\ probe' = [probe EXCEPT !.triage_result = effect.triage_result]
    /\ pre' = Store
    /\ UNCHANGED <<auth_vars, slots, appointments, appointment_activity, audit_log,
                   clock, call, result, lock, procs, intake_vars, txn, op>>

PolicyNext == Decide

PolicySpec == PolicyInit /\ [][PolicyNext]_vars

(***************************************************************************)
(* llm_reasoner.py: HybridTriageReasoner.analyze.  What a reasoner's        *)
(* analyze does is an outcome: a returned TriageResult or a raised error.   *)
(***************************************************************************)
Returned(value) == [raised |-> FALSE, value |-> value]

Raising(error) == [raised |-> TRUE, error |-> error]

\* The confidence set to 0.79 whatever it was.
FallbackConfidence_Forced(confidence) == 79

\* The confidence left as the fallback reasoner gave it.
FallbackConfidence_Unchanged(confidence) == confidence

\* Line 237: min(fallback_result.confidence, 0.79).
FallbackConfidence(confidence) ==
    IF confidence < 79 THEN confidence ELSE 79

\* primary: the outcome of self.primary.analyze(...); fallback_result: what
\* self.fallback.analyze(...) returns.
analyze(primary, fallback_result) ==
    IF ~primary.raised THEN primary
    ELSE Returned([fallback_result EXCEPT
            !.human_routing_flag = TRUE,
            !.confidence = FallbackConfidence(@),
            !.rationale = @ \o
                <<" Fallback reasoner used because LLM structured output failed.">>])

\* The primary is an LLM client: it returns any well-formed result or
\* raises.  The fallback is the heuristic reasoner (reasoner_factory.py
\* lines 48 and 62), whose confidence lies between 0.30 and 0.99.
PrimaryOutcomes ==
    {Raising("LLM outage")} \cup {Returned(t) : t \in TriageResults}

FallbackResults ==
    {TriageResult(urgency, confidence,
                  <<DepartmentScore("Cardiology", 75)>>, "Cardiology",
                  <<"heuristic">>, flag) :
        urgency \in Urgency, confidence \in {30, 78, 79, 80, 99},
        flag \in BOOLEAN}

ReasonerInit ==
    /\ slots = CHOOSE inv \in Inventories : TRUE
    /\ config = DefaultConfig
    /\ patients = RegisteredPatients
    /\ triage_events = RegisteredTriageEvents
    /\ InitStore
    /\ probe \in [kind : {"analyze"}, primary : PrimaryOutcomes,
                   fallback_result : FallbackResults]
    /\ answer = NoAnswer

\* hybrid.analyze(age=..., sex=..., symptoms=...).
Analyze ==
    /\ probe.kind = "analyze"
    /\ answer = NoAnswer
    /\ answer' = [kind |-> "triage",
                  outcome |-> analyze(probe.primary, probe.fallback_result)]
    /\ pre' = Store
    /\ UNCHANGED <<auth_vars, slots, appointments, appointment_activity, audit_log,
                   config, clock, call, result, lock, procs, intake_vars,
                   txn, op, probe>>

ReasonerNext == Analyze

ReasonerSpec == ReasonerInit /\ [][ReasonerNext]_vars

(***************************************************************************)
(* database.py: the intake and queue tables.                                *)
(***************************************************************************)
create_patient(d, age) == [d EXCEPT !.patients = Append(@, PatientRow(age))]

create_triage_event(d, patient_id, triage_result) ==
    [d EXCEPT !.triage_events =
        Append(@, TriageEventRow(patient_id, triage_result))]

create_routing_decision(d, triage_event_id, decision) ==
    [d EXCEPT !.routing_decisions =
        Append(@, [triage_event_id |-> triage_event_id] @@ decision)]

\* The new row has id Len(nurse_queue) + 1 and status PENDING by default.
enqueue_case(d, triage_event_id, reason, priority) ==
    audit([d EXCEPT !.nurse_queue =
                Append(@, [triage_event_id |-> triage_event_id,
                           status |-> "PENDING", reason |-> reason,
                           priority |-> priority, notes |-> <<>>,
                           assigned_to |-> ""])],
          "nurse_queue", Len(d.nurse_queue) + 1, "ENQUEUED",
          [reason |-> reason, priority |-> priority])

\* UPDATE nurse_queue ... WHERE id = ?, then the audit record.
resolve_queue_item(d, queue_id, status, notes, assigned_to) ==
    audit(IF queue_id \in 1..Len(d.nurse_queue)
          THEN [d EXCEPT !.nurse_queue[queue_id].status = status,
                         !.nurse_queue[queue_id].notes = notes,
                         !.nurse_queue[queue_id].assigned_to = assigned_to]
          ELSE d,
          "nurse_queue", queue_id, "RESOLVED",
          [status |-> status, notes |-> notes, assigned_to |-> assigned_to])

\* The queue row joined with its triage event's patient_id, urgency and
\* suggested_department.
get_queue_item(d, queue_id) ==
    IF queue_id \in 1..Len(d.nurse_queue)
    THEN LET q == d.nurse_queue[queue_id]
             t == d.triage_events[q.triage_event_id]
         IN  [id |-> queue_id, patient_id |-> t.patient_id,
              urgency |-> t.urgency,
              suggested_department |-> t.suggested_department] @@ q
    ELSE NoRow

get_triage_event(d, triage_event_id) ==
    IF triage_event_id \in 1..Len(d.triage_events)
    THEN [id |-> triage_event_id] @@ d.triage_events[triage_event_id]
    ELSE NoRow

(***************************************************************************)
(* service.py: TriageService, built as main.py builds it (with a notifier). *)
(* An operator gives the set of ways the call can end from store d: the     *)
(* store after, the events handed to the notifier, the scheduler call made  *)
(* (NoCall if none) with its result, and what the service returns.  A call  *)
(* can end in more than one way where a query may return either of several  *)
(* rows and where the notifier may return or raise.                         *)
(***************************************************************************)
InList(value, list) == \E i \in 1..Len(list) : list[i] = value

\* The test passing for every urgency.
ShouldNotify_Always(cfg, urgency) == TRUE

\* Lines 104, 170 and 228: urgency.value in self.config.notify_on_urgencies.
ShouldNotify(cfg, urgency) == InList(urgency, cfg.notify_on_urgencies)

NotificationEvent(urgency, patient_id, triage_event_id, queue_id, department, reason) ==
    [event_type |-> "TRIAGE_ESCALATION", urgency |-> urgency,
     patient_id |-> patient_id, triage_event_id |-> triage_event_id,
     queue_id |-> queue_id, department |-> department, reason |-> reason]

\* Nothing handed to the notifier.
NotNotified(d, sent) == {[db |-> d, dispatched |-> sent, attempts |-> <<>>]}

\* notifications.py lines 26-30.
NotificationDelivery(channel, status) == [channel |-> channel, status |-> status]

\* notifications.py lines 137-166: what notifier.dispatch(event) may do.  A
\* hook that answers 2xx is SENT; one that fails is FAILED when
\* notification_fail_open is on and raises when it is off.
DispatchOutcomes ==
    {Returned(<<NotificationDelivery("webhook", "SENT")>>),
     Returned(<<NotificationDelivery("webhook", "FAILED")>>),
     Raising("webhook hook failed with HTTP 500")}

\* Every attempt recorded as dispatched.
DispatchAudit_AlwaysDispatched(attempt) ==
    [action |-> "NOTIFICATION_DISPATCHED", detail |-> [deliveries |-> <<>>]]

\* Lines 243-274: the audit action and the part of its payload that tells
\* how the attempt went.
DispatchAudit(attempt) ==
    IF attempt.raised
    THEN [action |-> "NOTIFICATION_FAILED",
          detail |-> [error |-> attempt.error]]
    ELSE [action |-> "NOTIFICATION_DISPATCHED",
          detail |-> [deliveries |-> attempt.value]]

\* Lines 216-274.  sent: the events handed to the notifier so far;
\* attempts: how each dispatch of this call went.
notify_escalation(d, sent, cfg, event) ==
    IF ~ShouldNotify(cfg, event.urgency)
    THEN NotNotified(d, sent)
    ELSE {[db |-> audit(d, "triage_events", event.triage_event_id,
                        DispatchAudit(attempt).action,
                        [event_type |-> event.event_type,
                         urgency |-> event.urgency,
                         queue_id |-> event.queue_id]
                        @@ DispatchAudit(attempt).detail),
           dispatched |-> Append(sent, event),
           attempts |-> <<attempt>>] :
            attempt \in DispatchOutcomes}

\* A queue item also for a case that was booked.
NeedsQueueItem_Always(status) == TRUE

\* Line 79.
NeedsQueueItem(status) == status = "ESCALATED"

\* Every book result resolves the item to BOOKED.
ResolvedStatus_AlwaysBooked(status) == "BOOKED"

\* Lines 156-166.
ResolvedStatus(status) ==
    IF status \in {"BOOKED", "BOOKED_FALLBACK", "PREEMPTED"} THEN "BOOKED"
    ELSE "ESCALATED"

Text(text) == <<NotePart(text, NoTime)>>

\* Lines 67-113, for one outcome `booked` of the scheduler call c.  If book
\* raised, the error leaves process_intake at line 68.
IntakeAfterBook(sent, cfg, req, ids, routing, c, booked) ==
    LET t == req.triage_result
        queued == NeedsQueueItem(booked.result.status)
        queue_id == IF queued THEN Len(booked.db.nurse_queue) + 1 ELSE NULL
        d1 == IF queued
              THEN enqueue_case(booked.db, ids.triage_event_id,
                       Text("Auto-book failed:") \o booked.result.note,
                       t.urgency)
              ELSE booked.db
        event == NotificationEvent(t.urgency, ids.patient_id,
                     ids.triage_event_id, queue_id, t.suggested_department,
                     IF booked.result.note # <<>> THEN booked.result.note
                     ELSE Text("Scheduling escalation from intake flow."))
        notified ==
            IF routing.action = "ESCALATE" /\ queue_id # NULL
            THEN notify_escalation(d1, sent, cfg,
                    [event EXCEPT !.reason = Text(routing.reason)])
            ELSE IF booked.result.status = "ESCALATED"
                    /\ InList(t.urgency, cfg.notify_on_urgencies)
            THEN notify_escalation(d1, sent, cfg, event)
            ELSE NotNotified(d1, sent)
    IN  {[db |-> told.db, dispatched |-> told.dispatched,
          attempts |-> told.attempts, call |-> c,
          result |-> booked.result, queue_id |-> queue_id,
          raised |-> booked.result.status = "RAISED",
          error |-> IF booked.result.status = "RAISED"
                    THEN booked.result.note ELSE <<>>] : told \in notified}

\* Lines 85-100: the policy did not choose AUTO_BOOK.
IntakeQueued(d, sent, cfg, req, ids, routing) ==
    LET t == req.triage_result
        queue_id == Len(d.nurse_queue) + 1
        d1 == enqueue_case(d, ids.triage_event_id, Text(routing.reason),
                           t.urgency)
        notified ==
            IF routing.action = "ESCALATE" /\ queue_id # NULL
            THEN notify_escalation(d1, sent, cfg,
                    NotificationEvent(t.urgency, ids.patient_id,
                        ids.triage_event_id, queue_id,
                        t.suggested_department, Text(routing.reason)))
            ELSE NotNotified(d1, sent)
    IN  {[db |-> told.db, dispatched |-> told.dispatched,
          attempts |-> told.attempts, call |-> NoCall,
          result |-> NoResult, queue_id |-> queue_id, raised |-> FALSE,
          error |-> <<>>] : told \in notified}

\* Lines 41-65: the intake transaction.  req: the triage result the
\* reasoner returns, the two request flags and the utc_now() reading of the
\* scheduler.
IntakeRouting(cfg, req) ==
    decide(cfg, req.triage_result,
           [confidence_threshold |-> <<>>, department_threshold |-> <<>>,
            always_route_when_model_requests_human |->
                <<req.always_route_when_model_requests_human>>,
            auto_book_high_urgency |-> <<req.auto_book_high_urgency>>])

\* locked: another connection holds the write lock from after the commit of
\* line 65 for longer than the 30 s of database.py line 33, so the BEGIN
\* IMMEDIATE of scheduler.py line 32 raises sqlite3.OperationalError.
process_intake_on(d, sent, cfg, req, locked) ==
    LET ids == [patient_id |-> Len(d.patients) + 1,
                triage_event_id |-> Len(d.triage_events) + 1]
        routing == IntakeRouting(cfg, req)
        d1 == create_routing_decision(
                create_triage_event(create_patient(d, req.age),
                                    ids.patient_id, req.triage_result),
                ids.triage_event_id, routing)
        c == [now |-> req.now, patient_id |-> ids.patient_id,
              triage_event_id |-> ids.triage_event_id,
              urgency |-> req.triage_result.urgency,
              department |-> req.triage_result.suggested_department,
              note |-> Text("Auto-booked from intake."),
              allow_preemption |-> TRUE]
    IN  {[routing |-> routing, ids |-> ids, fault |-> "none",
          intake |-> d1] @@ o :
            o \in IF routing.action = "AUTO_BOOK"
                  THEN UNION {IntakeAfterBook(sent, cfg, req, ids, routing,
                                              c, b) :
                                b \in IF locked
                                      THEN {Raised(d1, d1,
                                                   "database is locked")}
                                      ELSE BookOutcomes(d1, cfg, c)}
                  ELSE IntakeQueued(d1, sent, cfg, req, ids, routing)}

process_intake(d, sent, cfg, req) == process_intake_on(d, sent, cfg, req, FALSE)

\* The steps of the intake transaction, in the order of lines 43-65; each
\* may raise (the reasoner on a model outage, an insert on a database
\* error).
IntakeSteps ==
    <<"create_patient", "analyze", "create_triage_event", "decide",
      "create_routing_decision">>

\* The failed transaction leaving behind what it had written.
IntakeRollback_KeepsPartial(before, written) == written

\* Lines 41-42: "with self.repository.connect() as conn" rolls the
\* connection back when the block is left by an exception.
IntakeRollback(before, written) == before

\* The tables as the transaction has written them when step number `at`
\* raises: the inserts of the steps before it.
IntakeWrittenBefore(d, cfg, req, at) ==
    LET ids == [patient_id |-> Len(d.patients) + 1,
                triage_event_id |-> Len(d.triage_events) + 1]
        d1 == IF at > 1 THEN create_patient(d, req.age) ELSE d
        d2 == IF at > 3
              THEN create_triage_event(d1, ids.patient_id, req.triage_result)
              ELSE d1
    IN  d2

\* process_intake when step number `at` of the intake transaction raises:
\* the error leaves process_intake through the with block of line 41.
process_intake_raising(d, sent, cfg, req, at) ==
    LET written == IntakeWrittenBefore(d, cfg, req, at)
    IN  [db |-> IntakeRollback(d, written), dispatched |-> sent,
         attempts |-> <<>>, call |-> NoCall, result |-> NoResult,
         queue_id |-> NULL, raised |-> TRUE,
         error |-> Text(IntakeSteps[at]), fault |-> IntakeSteps[at],
         intake |-> written]

\* Lines 146-147: "override or stored", for an override that is None (<<>>)
\* or a value (<<v>>).
OrStored(override, stored) ==
    IF override = <<>> THEN stored ELSE override[1]

\* Lines 136-144: the call raises ValueError before anything is done.
QueueRejected(d, sent, text) ==
    [db |-> d, dispatched |-> sent, attempts |-> <<>>, call |-> NoCall,
     result |-> NoResult, raised |-> TRUE, error |-> Text(text)]

\* Lines 156-179, for one outcome `booked` of the scheduler call c.  If
\* book raised, the error leaves book_from_queue at line 148.
QueueAfterBook(sent, cfg, req, c, booked) ==
    LET raised == booked.result.status = "RAISED"
        status == ResolvedStatus(booked.result.status)
        d1 == IF raised THEN booked.db
              ELSE resolve_queue_item(booked.db, req.queue_id, status,
                      (IF status = "BOOKED" THEN Text("Booked by")
                       ELSE Text("Escalated by"))
                      \o Text(req.nurse_name)
                      \o (IF status = "BOOKED" THEN req.note
                          ELSE booked.result.note),
                      req.nurse_name)
        notified ==
            IF ~raised /\ status = "ESCALATED"
               /\ InList(c.urgency, cfg.notify_on_urgencies)
            THEN notify_escalation(d1, sent, cfg,
                    NotificationEvent(c.urgency, c.patient_id,
                        c.triage_event_id, req.queue_id, c.department,
                        IF booked.result.note # <<>>
                        THEN booked.result.note
                        ELSE Text("Scheduling escalation from nurse queue.")))
            ELSE NotNotified(d1, sent)
    IN  {[db |-> told.db, dispatched |-> told.dispatched,
          attempts |-> told.attempts, call |-> c,
          result |-> booked.result,
          raised |-> booked.result.status = "RAISED",
          error |-> IF booked.result.status = "RAISED"
                    THEN booked.result.note ELSE <<>>] : told \in notified}

\* Lines 136-144: the ValueError text of the checks book_from_queue makes
\* on what get_queue_item and get_triage_event read from d, "" when they pass.
QueueRefusal(d, req) ==
    LET queue_item == get_queue_item(d, req.queue_id)
    IN  IF queue_item = NoRow THEN "Queue item not found."
        ELSE IF queue_item.status # "PENDING" THEN "Queue item is not pending."
        ELSE IF get_triage_event(d, queue_item.triage_event_id) = NoRow
        THEN "Associated triage event not found."
        ELSE ""

\* Lines 146-155: the arguments of the scheduler call, from the rows read.
QueueCall(d, req) ==
    LET queue_item == get_queue_item(d, req.queue_id)
        triage_event == get_triage_event(d, queue_item.triage_event_id)
    IN  [now |-> req.now, patient_id |-> queue_item.patient_id,
         triage_event_id |-> queue_item.triage_event_id,
         urgency |-> OrStored(req.urgency_override, triage_event.urgency),
         department |-> OrStored(req.department_override,
                                 triage_event.suggested_department),
         note |-> Text("Nurse booked from queue by")
                  \o Text(req.nurse_name) \o req.note,
         allow_preemption |-> TRUE]

\* req: queue_id, nurse_name, department_override, urgency_override, note
\* and the utc_now() reading of the scheduler.
book_from_queue(d, sent, cfg, req) ==
    IF QueueRefusal(d, req) # ""
    THEN {QueueRejected(d, sent, QueueRefusal(d, req))}
    ELSE UNION {QueueAfterBook(sent, cfg, req, QueueCall(d, req), b) :
                    b \in BookOutcomes(d, cfg, QueueCall(d, req))}

(***************************************************************************)
(* The service's two operations, one call at a time, on a fresh database    *)
(* with a seeded inventory.                                                 *)
(***************************************************************************)
MaxIntakes == 2

\* What the reasoner may return: for each of three urgencies a result that
\* passes both thresholds, asking for a human or not.
IntakeTriageResults ==
    {TriageResult(urgency, 95, <<DepartmentScore("Cardiology", 75)>>,
                  "Cardiology", <<"test">>, flag) :
        urgency \in {"ROUTINE", "URGENT", "EMERGENCY"}, flag \in BOOLEAN}

IntakeRequests ==
    [triage_result : IntakeTriageResults, age : {58},
     auto_book_high_urgency : BOOLEAN,
     always_route_when_model_requests_human : BOOLEAN, now : {clock}]

\* Queue ids on file and the next one, which is not; at most one override.
QueueRequests ==
    {req \in [queue_id : 1..(Len(nurse_queue) + 1), nurse_name : {"nurse"},
              department_override : {<<>>, <<"General Medicine">>},
              urgency_override : {<<>>, <<"EMERGENCY">>},
              note : {Text("reviewed")}, now : {clock}] :
        req.department_override = <<>> \/ req.urgency_override = <<>>}

\* The tables, the notifier's events and the history after a service call
\* that ended as `out`.
ServiceCallEnds(name, req, out) ==
    /\ slots' = out.db.slots
    /\ appointments' = out.db.appointments
    /\ appointment_activity' = out.db.appointment_activity
    /\ audit_log' = out.db.audit_log
    /\ patients' = out.db.patients
    /\ triage_events' = out.db.triage_events
    /\ routing_decisions' = out.db.routing_decisions
    /\ nurse_queue' = out.db.nurse_queue
    /\ dispatched' = out.dispatched
    /\ call' = out.call
    /\ result' = out.result
    /\ pre' = Store
    /\ txn' = out.db
    /\ clock' = req.now
    /\ op' = [name |-> name, req |-> req, sent_before |-> Len(dispatched)]
              @@ [f \in DOMAIN out \ {"db", "dispatched", "call", "result"}
                    |-> out[f]]
    /\ UNCHANGED <<auth_vars, config, lock, procs, policy_vars>>

ProcessIntake ==
    /\ call = NoCall
    /\ op = NoOp
    /\ Len(patients) < MaxIntakes
    /\ \E req \in IntakeRequests :
          \E out \in process_intake(Store, dispatched, config, req) :
              ServiceCallEnds("process_intake", req, out)

BookFromQueue ==
    /\ call = NoCall
    /\ op = NoOp
    /\ \E req \in QueueRequests :
          \E out \in book_from_queue(Store, dispatched, config, req) :
              ServiceCallEnds("book_from_queue", req, out)

\* The inventory: Cardiology slots at the first NumSlots of SlotStarts.
ServiceInit ==
    /\ slots \in {inv \in Inventories :
                    \A i \in SlotIds :
                        /\ inv[i].department = "Cardiology"
                        /\ \A t \in SlotStarts :
                              to_db_time(t) = inv[i].start_at =>
                                 Cardinality({u \in SlotStarts : u < t}) < NumSlots}
    /\ config \in {[DefaultConfig EXCEPT !.notify_on_urgencies = list] :
                      list \in {<<"EMERGENCY", "URGENT">>, <<"URGENT">>}}
    /\ patients = <<>>
    /\ triage_events = <<>>
    /\ InitIdle

ServiceNext == ProcessIntake \/ BookFromQueue \/ Return

ServiceSpec == ServiceInit /\ [][ServiceNext]_vars

\* An intake whose transaction is left by an exception.
ProcessIntakeRaises ==
    /\ call = NoCall
    /\ op = NoOp
    /\ Len(patients) < MaxIntakes
    /\ \E req \in IntakeRequests, at \in 1..Len(IntakeSteps) :
          ServiceCallEnds("process_intake", req,
              process_intake_raising(Store, dispatched, config, req, at))

IntakeNext == ProcessIntake \/ ProcessIntakeRaises \/ Return

IntakeSpec == ServiceInit /\ [][IntakeNext]_vars

(***************************************************************************)
(* process_intake while another connection writes to the database file.    *)
(* The intake transaction has committed (line 65) when Scheduler.book       *)
(* opens its own connection and asks for the write lock; a writer that      *)
(* keeps the lock for more than the connection's timeout makes that         *)
(* request raise.                                                           *)
(***************************************************************************)
\* Another writer's transaction ends.
WriterCommits ==
    /\ lock # NoProc
    /\ lock' = NoProc
    /\ UNCHANGED <<auth_vars, slots, appointments, appointment_activity,
                   audit_log, config, clock, call, pre, result, procs,
                   intake_vars, txn, op, policy_vars>>

\* Lines 31-113 when the lock is free throughout.
ProcessIntakeUnlocked ==
    /\ lock = NoProc
    /\ ProcessIntake

\* Lines 31-78: the intake commits, a writer `w` takes the lock and the
\* scheduler's lock request times out.
ProcessIntakeLocked ==
    /\ call = NoCall
    /\ op = NoOp
    /\ lock = NoProc
    /\ Len(patients) < MaxIntakes
    /\ \E req \in IntakeRequests, w \in Procs :
          /\ IntakeRouting(config, req).action = "AUTO_BOOK"
          /\ \E out \in process_intake_on(Store, dispatched, config, req, TRUE) :
                /\ slots' = out.db.slots
                /\ appointments' = out.db.appointments
                /\ appointment_activity' = out.db.appointment_activity
                /\ audit_log' = out.db.audit_log
                /\ patients' = out.db.patients
                /\ triage_events' = out.db.triage_events
                /\ routing_decisions' = out.db.routing_decisions
                /\ nurse_queue' = out.db.nurse_queue
                /\ dispatched' = out.dispatched
                /\ call' = out.call
                /\ result' = out.result
                /\ pre' = Store
                /\ txn' = out.db
                /\ clock' = req.now
                /\ op' = [name |-> "process_intake", req |-> req,
                          sent_before |-> Len(dispatched)]
                          @@ [f \in DOMAIN out
                                     \ {"db", "dispatched", "call", "result"}
                                |-> out[f]]
                /\ lock' = w
    /\ UNCHANGED <<auth_vars, config, procs, policy_vars>>

LockedIntakeNext ==
    ProcessIntakeUnlocked \/ ProcessIntakeLocked \/ WriterCommits \/ Return

LockedIntakeSpec == ServiceInit /\ [][LockedIntakeNext]_vars

(***************************************************************************)
(* process_intake with the hybrid reasoner: line 50 calls                   *)
(* HybridTriageReasoner.analyze, whose primary returns a result or raises   *)
(* and whose fallback then answers.                                         *)
(***************************************************************************)
\* A request with the outcome of the primary and the result of the fallback
\* that make its triage result.
HybridIntakeRequests ==
    {[triage_result |-> analyze(h.primary, h.fallback_result).value,
      age |-> 58, auto_book_high_urgency |-> b,
      always_route_when_model_requests_human |-> a, now |-> clock,
      primary |-> h.primary, fallback_result |-> h.fallback_result] :
        h \in [primary : {Raising("LLM outage")},
               fallback_result : FallbackResults]
              \cup [primary : {Returned(t) : t \in IntakeTriageResults},
                    fallback_result :
                        {CHOOSE f \in FallbackResults : f.confidence = 99}],
        a \in BOOLEAN, b \in BOOLEAN}

ProcessHybridIntake ==
    /\ call = NoCall
    /\ op = NoOp
    /\ Len(patients) = 0
    /\ \E req \in HybridIntakeRequests :
          \E out \in process_intake(Store, dispatched, config, req) :
              ServiceCallEnds("process_intake", req, out)

HybridIntakeNext == ProcessHybridIntake \/ Return

HybridIntakeSpec == ServiceInit /\ [][HybridIntakeNext]_vars

(***************************************************************************)
(* book_from_queue called by two nurses at once.  Each call reads the queue *)
(* item and the triage event on connections of its own (service.py lines    *)
(* 136-144, database.py lines 334-349: plain SELECTs, no write lock), then  *)
(* Scheduler.book runs in its BEGIN IMMEDIATE transaction (one writer at a  *)
(* time, so one step), then resolve_queue_item and the notification run in  *)
(* a further transaction.  Steps of the two calls interleave between these  *)
(* transactions.                                                            *)
(***************************************************************************)
\* Locals of a call: its request, the scheduler call it built, what book
\* returned and the ValueError text it raised, if any.
QueueCaller(pc, req, c, booked, error) ==
    [pc |-> pc, req |-> req, c |-> c, booked |-> booked, error |-> error]

QueueStoreBecomes(d) ==
    /\ slots' = d.slots
    /\ appointments' = d.appointments
    /\ appointment_activity' = d.appointment_activity
    /\ audit_log' = d.audit_log
    /\ patients' = d.patients
    /\ triage_events' = d.triage_events
    /\ routing_decisions' = d.routing_decisions
    /\ nurse_queue' = d.nurse_queue

\* The one intake the two nurses work on.
QueueRaceIntake ==
    /\ call = NoCall
    /\ op = NoOp
    /\ Len(patients) = 0
    /\ \E req \in IntakeRequests :
          \E out \in process_intake(Store, dispatched, config, req) :
              ServiceCallEnds("process_intake", req, out)

\* Lines 136-144: the reads and the checks on them.
QueueCheck(p) ==
    /\ call = NoCall
    /\ op = NoOp
    /\ Len(patients) > 0
    /\ procs[p].pc = "idle"
    /\ \E req \in QueueRequests :
          procs' = [procs EXCEPT ![p] =
                      IF QueueRefusal(Store, req) # ""
                      THEN QueueCaller("done", req, NoCall, NoResult,
                                       Text(QueueRefusal(Store, req)))
                      ELSE QueueCaller("checked", req, QueueCall(Store, req),
                                       NoResult, <<>>)]
    /\ UNCHANGED <<auth_vars, slots, appointments, appointment_activity,
                   audit_log, config, clock, call, pre, result, lock,
                   intake_vars, txn, op, policy_vars>>

\* Lines 148-155: Scheduler.book, on the store as it is now.
QueueBook(p) ==
    /\ procs[p].pc = "checked"
    /\ \E b \in BookOutcomes(Store, config, procs[p].c) :
          /\ QueueStoreBecomes(b.db)
          /\ procs' = [procs EXCEPT ![p].pc = "booked", ![p].booked = b.result]
    /\ UNCHANGED <<auth_vars, config, clock, call, pre, result, lock,
                   dispatched, txn, op, policy_vars>>

\* Lines 156-179: resolve_queue_item and the notification.
QueueResolve(p) ==
    /\ procs[p].pc = "booked"
    /\ \E out \in QueueAfterBook(dispatched, config, procs[p].req, procs[p].c,
                                 [db |-> Store, result |-> procs[p].booked]) :
          /\ QueueStoreBecomes(out.db)
          /\ dispatched' = out.dispatched
          /\ procs' = [procs EXCEPT ![p].pc = "done", ![p].error = out.error]
    /\ UNCHANGED <<auth_vars, config, clock, call, pre, result, lock, txn, op,
                   policy_vars>>

QueueRaceNext ==
    \/ QueueRaceIntake
    \/ Return
    \/ \E p \in Procs : QueueCheck(p) \/ QueueBook(p) \/ QueueResolve(p)

QueueRaceSpec == ServiceInit /\ [][QueueRaceNext]_vars

(***************************************************************************)
(* backend/app/auth.py: refresh tokens.  A refresh token is named by its    *)
(* jti; its payload carries the subject, the family and the expiry that     *)
(* its row in auth_refresh_sessions carries.  Times are epoch seconds.      *)
(***************************************************************************)
\* Seconds a refresh token lives (refresh_token_exp_minutes * 60), scaled
\* down to ticks of the model's clock.
RefreshLifetime == 2

\* Ticks of the clock within a run, refresh requests answered and refresh
\* sessions issued within a run.
MaxTicks == 2

MaxRefreshRequests == 3

MaxSessions == 2

FirstClock == CHOOSE t \in Clocks : \A u \in Clocks : t <= u

\* Lines 188-243: the row issue_refresh_token inserts; a token issued
\* outside a rotation starts a family of its own (named by its jti here,
\* a fresh uuid4 in the code).
issue_refresh_token(sessions, username, family_id, now) ==
    Append(sessions,
           [username |-> username,
            family_id |-> IF family_id = NULL THEN Len(sessions) + 1
                          ELSE family_id,
            expires_at_epoch |-> now + RefreshLifetime,
            revoked |-> FALSE, replaced_by_jti |-> NULL])

\* Lines 310-318 and 403-412: UPDATE ... SET revoked = 1 WHERE family_id = ?.
RevokeFamily(sessions, family_id) ==
    [j \in 1..Len(sessions) |->
        IF sessions[j].family_id = family_id
        THEN [sessions[j] EXCEPT !.revoked = TRUE] ELSE sessions[j]]

AuthAnswer(status_code, detail) == [status_code |-> status_code, detail |-> detail]

\* Reuse answered by revoking the presented token only.
ReuseRevocation_TokenOnly(sessions, jti, family_id) ==
    [sessions EXCEPT ![jti].revoked = TRUE]

\* Lines 309-318: a revoked token was presented.
ReuseRevocation(sessions, jti, family_id) == RevokeFamily(sessions, family_id)

\* Lines 288-376, inside the transaction: row is what the SELECT of line 291
\* returned for the token's jti (NoRow if none), now_epoch the reading of
\* line 288, issued_at the clock when the new token is issued.  Gives the
\* tables after the commit and the answer.
rotate_refresh_token(sessions, users, jti, row, now_epoch, issued_at) ==
    IF row = NoRow
    THEN [sessions |-> sessions, issued |-> NULL,
          answer |-> AuthAnswer(401, "Refresh token is not recognized.")]
    ELSE IF row.revoked
    THEN [sessions |-> ReuseRevocation(sessions, jti, row.family_id),
          issued |-> NULL,
          answer |-> AuthAnswer(401, "Refresh token reuse detected.")]
    ELSE IF row.expires_at_epoch < now_epoch
    THEN [sessions |-> [sessions EXCEPT ![jti].revoked = TRUE],
          issued |-> NULL,
          answer |-> AuthAnswer(401, "Refresh token expired.")]
    ELSE IF row.username \notin DOMAIN users
    THEN [sessions |-> sessions, issued |-> NULL,
          answer |-> AuthAnswer(401, "Invalid token subject.")]
    ELSE LET revoked == [sessions EXCEPT ![jti].revoked = TRUE]
             issued == issue_refresh_token(revoked, row.username,
                                           row.family_id, issued_at)
         IN  [sessions |-> [issued EXCEPT ![jti].replaced_by_jti = Len(issued)],
              issued |-> Len(issued),
              answer |-> AuthAnswer(200, "")]

\* A caller of the refresh endpoint: where it is in rotate_refresh_token and
\* its locals.
IdleCaller == [pc |-> "idle", token |-> NULL, now_epoch |-> NULL, row |-> NoRow]

\* What is remembered of an answered refresh request: the token presented,
\* whether its exp had passed when it was decoded, the token issued if any.
RefreshLogEntry(token, expired, issued, reply) ==
    [kind |-> "refresh", token |-> token, expired |-> expired,
     issued |-> issued, answer |-> reply]

\* The tables and variables the refresh endpoint never touches.
RefreshFrame ==
    UNCHANGED <<slots, appointments, appointment_activity, audit_log, config,
                call, pre, result, intake_vars, txn, op, policy_vars,
                auth_users, auth_login_failures>>

\* main.py lines 255-257 via issue_token_pair: a login that succeeded
\* issues a refresh token of a new family.  The insert needs the write lock.
IssueTokenPair ==
    /\ lock = NoProc
    /\ Len(auth_refresh_sessions) < MaxSessions
    /\ \E username \in {"nurse"} :
          auth_refresh_sessions' =
             issue_refresh_token(auth_refresh_sessions, username, NULL, clock)
    /\ UNCHANGED <<clock, lock, procs, auth_log>>
    /\ RefreshFrame

\* Lines 271-288: the token is decoded (jwt.decode rejects one whose exp has
\* passed) and now_epoch is read; time may pass between the two.
RefreshCall(p) ==
    /\ procs[p].pc = "idle"
    /\ Len(auth_log) + Cardinality({q \in Procs : procs[q].pc # "idle"})
          < MaxRefreshRequests
    /\ \E token \in 1..Len(auth_refresh_sessions) :
          IF auth_refresh_sessions[token].expires_at_epoch <= clock
          THEN /\ auth_log' =
                    Append(auth_log,
                        RefreshLogEntry(token, TRUE, NULL,
                            AuthAnswer(401, "Invalid or expired token.")))
               /\ UNCHANGED procs
          ELSE /\ \E now_epoch \in {clock, clock + 1} :
                     procs' = [procs EXCEPT
                                 ![p] = [IdleCaller EXCEPT
                                           !.pc = "decoded", !.token = token,
                                           !.now_epoch = now_epoch]]
               /\ UNCHANGED auth_log
    /\ UNCHANGED <<clock, lock, auth_refresh_sessions>>
    /\ RefreshFrame

\* The transaction started without taking the write lock.
RefreshCanBegin_Deferred == TRUE

\* Line 290: BEGIN IMMEDIATE succeeds when no other connection holds the
\* write lock (the caller waits for it otherwise).
RefreshCanBegin == lock = NoProc

\* Lines 289-302: the transaction begins and the token's row is selected.
RefreshBegin(p) ==
    /\ procs[p].pc = "decoded"
    /\ RefreshCanBegin
    /\ lock' = p
    /\ procs' = [procs EXCEPT
                    ![p].pc = "selected",
                    ![p].row =
                        IF procs[p].token \in 1..Len(auth_refresh_sessions)
                        THEN [id |-> procs[p].token]
                             @@ auth_refresh_sessions[procs[p].token]
                        ELSE NoRow]
    /\ UNCHANGED <<clock, auth_refresh_sessions, auth_log>>
    /\ RefreshFrame

\* Lines 303-383: the checks and writes, the commit, the answer.
RefreshFinish(p) ==
    /\ procs[p].pc = "selected"
    /\ LET done == rotate_refresh_token(auth_refresh_sessions, auth_users,
                       procs[p].token, procs[p].row, procs[p].now_epoch,
                       clock)
       IN  /\ auth_refresh_sessions' = done.sessions
           /\ auth_log' =
                 Append(auth_log,
                     RefreshLogEntry(procs[p].token, FALSE,
                                     done.issued, done.answer))
    /\ lock' = IF lock = p THEN NoProc ELSE lock
    /\ procs' = [procs EXCEPT ![p] = IdleCaller]
    /\ UNCHANGED clock
    /\ RefreshFrame

\* A second passes.
AuthTick ==
    /\ clock < FirstClock + MaxTicks
    /\ clock' = clock + 1
    /\ UNCHANGED <<lock, procs, auth_refresh_sessions, auth_log>>
    /\ RefreshFrame

RefreshInit ==
    /\ slots = CHOOSE inv \in Inventories : TRUE
    /\ config = DefaultConfig
    /\ patients = RegisteredPatients
    /\ triage_events = RegisteredTriageEvents
    /\ InitIdle

RefreshNext ==
    \/ IssueTokenPair
    \/ AuthTick
    \/ \E p \in Procs :
          \/ RefreshCall(p)
          \/ RefreshBegin(p)
          \/ RefreshFinish(p)

RefreshSpec == RefreshInit /\ [][RefreshNext]_vars

(***************************************************************************)
(* backend/app/auth.py and backend/app/main.py: the login endpoint and its  *)
(* throttling.  A request carries the username and password of the body,    *)
(* the client host of the connection ("" when there is none) and the parts  *)
(* of the X-Forwarded-For header.                                           *)
(***************************************************************************)
\* login_max_attempts, login_window_seconds and login_lockout_seconds
\* (auth.py lines 78-80: 5, 300 and 900), scaled down to ticks of the
\* model's clock with the window shorter than the lockout as there.
LoginMaxAttempts == 2

LoginWindow == 1

LoginLockout == 3

MaxLogins == 3

Hosts == {"10.10.10.10", "10.10.10.11"}

\* The header absent, one address, and an address after a part that is none.
ForwardedHeaders == {<<>>, <<"10.10.10.11">>, <<"proxy", "10.10.10.12">>}

\* The right credentials, a wrong password, and the right password under a
\* spelling of the username that no stored row has.
Credentials ==
    {<<"ops", "ops123">>, <<"ops", "wrong-password">>, <<" OPS", "ops123">>}

LoginRequests ==
    {[username |-> c[1], password |-> c[2], client |-> h, forwarded |-> f] :
        c \in Credentials, h \in Hosts, f \in ForwardedHeaders}

\* TRIAGE_AUTH_TRUST_X_FORWARDED_FOR and TRIAGE_AUTH_TRUSTED_PROXY_CIDRS (the
\* hosts inside the networks; none configured is the empty set).
LoginConfigs ==
    {[trust_forwarded |-> FALSE, trusted_networks |-> {}],
     [trust_forwarded |-> TRUE, trusted_networks |-> {}],
     [trust_forwarded |-> TRUE, trusted_networks |-> {"10.10.10.10"}]}

\* main.py lines 79-89.
_request_from_trusted_proxy(request, trusted_networks) ==
    IF trusted_networks = {} THEN TRUE
    ELSE IF request.client = "" THEN FALSE
    ELSE request.client \in trusted_networks

\* main.py lines 92-100: the part when it parses as an address.
_forwarded_ip_candidate(raw) ==
    IF raw \in {"10.10.10.10", "10.10.10.11", "10.10.10.12"}
    THEN <<raw>> ELSE <<>>

\* The header believed whatever the setting.
TrustsForwarded_Always(cfg, request) == TRUE

\* main.py lines 104-106.
TrustsForwarded(cfg, request) ==
    /\ cfg.trust_forwarded
    /\ _request_from_trusted_proxy(request, cfg.trusted_networks)

\* main.py lines 103-114.
_request_source_ip(cfg, request) ==
    LET candidates ==
            SelectSeq(request.forwarded,
                      LAMBDA part : _forwarded_ip_candidate(part) # <<>>)
    IN  IF TrustsForwarded(cfg, request) /\ candidates # <<>>
        THEN candidates[1]
        ELSE IF request.client # "" THEN request.client
        ELSE "unknown"

\* auth.py lines 813-815: strip().lower().
_login_key_username(username) ==
    CASE username = " OPS" -> "ops"
      [] OTHER -> username

\* auth.py lines 817-820.
_login_key_source_ip(source_ip) == IF source_ip = "" THEN "unknown" ELSE source_ip

Larger(a, b) == IF a >= b THEN a ELSE b

\* auth.py lines 778-787.
_prune_login_failures(failures, now_epoch) ==
    SelectSeq(failures,
        LAMBDA f : ~(f.attempted_at_epoch
                        < now_epoch - Larger(LoginWindow, LoginLockout) * 2))

\* auth.py lines 789-811.
_get_recent_failure_stats(failures, username_key, source_ip_key, window_start) ==
    LET recent == {i \in 1..Len(failures) :
                      /\ failures[i].username = username_key
                      /\ failures[i].source_ip = source_ip_key
                      /\ failures[i].attempted_at_epoch >= window_start}
        times == {failures[i].attempted_at_epoch : i \in recent}
    IN  [failure_count |-> Cardinality(recent),
         last_failure_epoch |->
            IF recent = {} THEN 0
            ELSE CHOOSE t \in times : \A u \in times : u <= t]

\* auth.py lines 106-120 and 141-151: seconds of lockout left for the pair,
\* 0 when it is not locked.
LockoutRemaining(failures, username_key, source_ip_key, now_epoch) ==
    LET stats == _get_recent_failure_stats(failures, username_key,
                     source_ip_key, now_epoch - LoginWindow)
        remaining == (stats.last_failure_epoch + LoginLockout) - now_epoch
    IN  IF stats.failure_count < LoginMaxAttempts \/ remaining <= 0
        THEN 0 ELSE remaining

\* auth.py lines 102-120.
check_login_allowed(failures, username, source_ip, now_epoch) ==
    LET pruned == _prune_login_failures(failures, now_epoch)
        remaining == LockoutRemaining(pruned, _login_key_username(username),
                         _login_key_source_ip(source_ip), now_epoch)
    IN  [failures |-> pruned, allowed |-> remaining = 0,
         retry_after |-> remaining]

\* auth.py lines 122-151.
record_failed_login(failures, username, source_ip, now_epoch) ==
    LET recorded ==
            Append(_prune_login_failures(failures, now_epoch),
                   [username |-> _login_key_username(username),
                    source_ip |-> _login_key_source_ip(source_ip),
                    attempted_at_epoch |-> now_epoch])
        remaining == LockoutRemaining(recorded, _login_key_username(username),
                         _login_key_source_ip(source_ip), now_epoch)
    IN  [failures |-> recorded, locked |-> remaining > 0,
         retry_after |-> remaining]

\* auth.py lines 153-163.
record_successful_login(failures, username, source_ip) ==
    SelectSeq(failures,
        LAMBDA f : ~(/\ f.username = _login_key_username(username)
                     /\ f.source_ip = _login_key_source_ip(source_ip)))

\* auth.py lines 94-100: the row is looked up by the username as given.
authenticate(users, username, password) ==
    /\ username \in DOMAIN users
    /\ users[username].password = password

LoginAnswer(status_code, retry_after) ==
    [status_code |-> status_code, retry_after |-> retry_after]

\* main.py lines 227-260: the failures table after the request and the
\* answer (retry_after is the Retry-After header, NULL when there is none).
login(failures, users, cfg, request, now_epoch) ==
    LET source_ip == _request_source_ip(cfg, request)
        checked == check_login_allowed(failures, request.username, source_ip,
                                       now_epoch)
        failed == record_failed_login(checked.failures, request.username,
                                      source_ip, now_epoch)
    IN  IF ~checked.allowed
        THEN [failures |-> checked.failures,
              answer |-> LoginAnswer(429, checked.retry_after)]
        ELSE IF ~authenticate(users, request.username, request.password)
        THEN [failures |-> failed.failures,
              answer |-> IF failed.locked
                         THEN LoginAnswer(429, failed.retry_after)
                         ELSE LoginAnswer(401, NULL)]
        ELSE [failures |-> record_successful_login(checked.failures,
                               request.username, source_ip),
              answer |-> LoginAnswer(200, NULL)]

\* What is remembered of an answered login: the request, the second it was
\* made, the pair it was counted under and the answer.
LoginLogEntry(request, cfg, now_epoch, reply) ==
    [kind |-> "login", request |-> request, at |-> now_epoch,
     username_key |-> _login_key_username(request.username),
     source_ip_key |-> _login_key_source_ip(_request_source_ip(cfg, request)),
     answer |-> reply]

Login ==
    /\ Len(auth_log) < MaxLogins
    /\ \E request \in LoginRequests :
          LET done == login(auth_login_failures, auth_users, config, request,
                            clock)
          IN  /\ auth_login_failures' = done.failures
              /\ auth_log' = Append(auth_log,
                                LoginLogEntry(request, config, clock,
                                              done.answer))
              /\ auth_refresh_sessions' =
                    IF done.answer.status_code = 200
                    THEN issue_refresh_token(auth_refresh_sessions,
                                             request.username, NULL, clock)
                    ELSE auth_refresh_sessions
    /\ UNCHANGED <<clock, lock, procs, auth_users>>
    /\ UNCHANGED <<slots, appointments, appointment_activity, audit_log, config,
                   call, pre, result, intake_vars, txn, op, policy_vars>>

LoginInit ==
    /\ slots = CHOOSE inv \in Inventories : TRUE
    /\ config \in LoginConfigs
    /\ patients = RegisteredPatients
    /\ triage_events = RegisteredTriageEvents
    /\ InitIdle

LoginNext == Login \/ AuthTick

LoginSpec == LoginInit /\ [][LoginNext]_vars

(***************************************************************************)
(* backend/app/auth.py and backend/app/main.py: access tokens, the role     *)
(* dependency and the endpoints that change a user's password_change_       *)
(* required and onboarding_completed flags.                                 *)
(***************************************************************************)
MaxRoleRequests == 4

\* main.py lines 214 and 216: StaffDep and AdminDep.
RoleSets == {{"operations", "nurse", "admin"}, {"admin"}}

\* auth.py lines 174-186: the claims of an access token issued to a user.
issue_access_token(users, username) ==
    [sub |-> username, role |-> users[username].role,
     pwd_reset_required |-> users[username].password_change_required,
     onboarding_completed |-> users[username].onboarding_completed]

NoUser == [username |-> ""]

NoToken == [sub |-> ""]

\* The user taken from the claims of the token.
get_current_user_FromClaims(users, token) ==
    [username |-> token.sub, role |-> token.role,
     password_change_required |-> token.pwd_reset_required,
     onboarding_completed |-> token.onboarding_completed]

\* auth.py lines 985-994, 255-268 and 165-172: the token names the user,
\* the user is read from auth_users.
get_current_user(users, token) ==
    IF token.sub \in DOMAIN users
    THEN [username |-> token.sub, role |-> users[token.sub].role,
          password_change_required |-> users[token.sub].password_change_required,
          onboarding_completed |-> users[token.sub].onboarding_completed]
    ELSE NoUser

Granted == AuthAnswer(200, "")

\* auth.py lines 997-1018.
require_roles(user, allowed) ==
    IF user = NoUser THEN AuthAnswer(401, "Invalid token subject.")
    ELSE IF user.password_change_required
    THEN AuthAnswer(403, "Password change is required before accessing this resource.")
    ELSE IF ~user.onboarding_completed
    THEN AuthAnswer(403, "Onboarding is required before accessing this resource.")
    ELSE IF user.role \notin allowed
    THEN AuthAnswer(403, "Insufficient role privileges.")
    ELSE Granted

\* auth.py lines 414-461 up to the password update.
change_password(users, username, current_password, new_password) ==
    IF username \notin DOMAIN users
    THEN [users |-> users, answer |-> AuthAnswer(401, "User not found.")]
    ELSE IF users[username].password # current_password
    THEN [users |-> users,
          answer |-> AuthAnswer(400, "Current password is invalid.")]
    ELSE IF current_password = new_password
    THEN [users |-> users,
          answer |-> AuthAnswer(400, "New password must be different from current password.")]
    ELSE IF Len(new_password) < 8
    THEN [users |-> users,
          answer |-> AuthAnswer(400, "New password must be at least 8 characters.")]
    ELSE [users |-> [users EXCEPT ![username].password = new_password,
                                  ![username].password_change_required = FALSE],
          answer |-> Granted]

\* No session is revoked.
revoke_user_sessions_None(sessions, username) == sessions

\* auth.py lines 403-412 and 448-455.
revoke_user_sessions(sessions, username) ==
    [j \in 1..Len(sessions) |->
        IF sessions[j].username = username
        THEN [sessions[j] EXCEPT !.revoked = TRUE] ELSE sessions[j]]

\* main.py lines 309-320 with auth.py lines 463-473.
complete_onboarding(users, user) ==
    IF user = NoUser
    THEN [users |-> users, answer |-> AuthAnswer(401, "Invalid token subject.")]
    ELSE IF user.password_change_required
    THEN [users |-> users,
          answer |-> AuthAnswer(403, "Password change is required before onboarding completion.")]
    ELSE [users |-> [users EXCEPT ![user.username].onboarding_completed = TRUE],
          answer |-> Granted]

\* main.py lines 323-330 with auth.py lines 475-498.
reset_onboarding(users, user, username) ==
    IF require_roles(user, {"admin"}) # Granted
    THEN [users |-> users, answer |-> require_roles(user, {"admin"})]
    ELSE IF username \notin DOMAIN users
    THEN [users |-> users, answer |-> AuthAnswer(404, "User not found.")]
    ELSE [users |-> [users EXCEPT ![username].onboarding_completed = FALSE],
          answer |-> Granted]

\* What is remembered of an answered request: the endpoint, the token
\* presented, the row auth_users held for the token's subject when the
\* request arrived, the roles or the username the request named, the token
\* issued if any, and the answer.
RoleLogEntry(kind, token, users, named, issued, reply) ==
    [kind |-> kind, token |-> token,
     stored |-> IF token.sub \in DOMAIN users
                THEN users[token.sub] ELSE NoUser,
     named |-> named, issued |-> issued, answer |-> reply]

\* The access tokens issued so far.
IssuedTokens == {auth_log[i].issued : i \in 1..Len(auth_log)} \ {NoToken}

RoleFrame ==
    UNCHANGED <<slots, appointments, appointment_activity, audit_log, config,
                call, pre, result, intake_vars, txn, op, policy_vars,
                clock, lock, procs, auth_login_failures>>

\* main.py lines 255-257: a login that succeeded issues an access token.
IssueAccessToken ==
    /\ Len(auth_log) < MaxRoleRequests
    /\ \E username \in Usernames :
          /\ auth_log' = Append(auth_log,
                RoleLogEntry("login", NoToken, auth_users, username,
                             issue_access_token(auth_users, username),
                             Granted))
          /\ auth_refresh_sessions' =
                issue_refresh_token(auth_refresh_sessions, username, NULL,
                                    clock)
    /\ UNCHANGED auth_users
    /\ RoleFrame

\* An endpoint behind require_roles (StaffDep, AdminDep).
Protected ==
    /\ Len(auth_log) < MaxRoleRequests
    /\ \E token \in IssuedTokens, allowed \in RoleSets :
          auth_log' = Append(auth_log,
              RoleLogEntry("access", token, auth_users, allowed, NoToken,
                  require_roles(get_current_user(auth_users, token), allowed)))
    /\ UNCHANGED <<auth_users, auth_refresh_sessions>>
    /\ RoleFrame

\* main.py lines 281-301: POST /api/v1/auth/change-password.
ChangePassword ==
    /\ Len(auth_log) < MaxRoleRequests
    /\ \E token \in IssuedTokens :
       \E current_password \in {auth_users[token.sub].password, "wrong-password"},
          new_password \in {token.sub \o "123_new1", token.sub \o "123", "short"} :
          LET user == get_current_user(auth_users, token)
              done == change_password(auth_users, user.username,
                                      current_password, new_password)
              changed == done.answer = Granted
          IN  /\ auth_users' = done.users
              /\ auth_refresh_sessions' =
                    IF changed
                    THEN issue_refresh_token(
                             revoke_user_sessions(auth_refresh_sessions,
                                                  user.username),
                             user.username, NULL, clock)
                    ELSE auth_refresh_sessions
              /\ auth_log' = Append(auth_log,
                    RoleLogEntry("change-password", token, auth_users, NULL,
                        IF changed
                        THEN issue_access_token(done.users, user.username)
                        ELSE NoToken,
                        done.answer))
    /\ RoleFrame

\* main.py lines 309-320: POST /api/v1/auth/onboarding-complete.
CompleteOnboarding ==
    /\ Len(auth_log) < MaxRoleRequests
    /\ \E token \in IssuedTokens :
          LET done == complete_onboarding(auth_users,
                          get_current_user(auth_users, token))
          IN  /\ auth_users' = done.users
              /\ auth_log' = Append(auth_log,
                    RoleLogEntry("onboarding-complete", token, auth_users,
                                 NULL, NoToken, done.answer))
    /\ UNCHANGED auth_refresh_sessions
    /\ RoleFrame

\* main.py lines 323-330: POST /api/v1/auth/onboarding-reset.
ResetOnboarding ==
    /\ Len(auth_log) < MaxRoleRequests
    /\ \E token \in IssuedTokens, username \in {"nurse", "nobody"} :
          LET done == reset_onboarding(auth_users,
                          get_current_user(auth_users, token), username)
          IN  /\ auth_users' = done.users
              /\ auth_log' = Append(auth_log,
                    RoleLogEntry("onboarding-reset", token, auth_users,
                                 username, NoToken, done.answer))
    /\ UNCHANGED auth_refresh_sessions
    /\ RoleFrame

\* The users as seeded, or with the admin and the nurse anywhere in their
\* first login (each combination of the two flags is reached by changing
\* the password, completing the onboarding and an admin's password reset).
RoleInit ==
    /\ slots = CHOOSE inv \in Inventories : TRUE
    /\ config = DefaultConfig
    /\ patients = RegisteredPatients
    /\ triage_events = RegisteredTriageEvents
    /\ InitTables
    /\ probe = NoProbe
    /\ answer = NoAnswer
    /\ auth_refresh_sessions = <<>>
    /\ auth_login_failures = <<>>
    /\ auth_log = <<>>
    /\ \E flags \in [{"admin", "nurse"} -> BOOLEAN \X BOOLEAN] :
          auth_users =
             [u \in Usernames |->
                IF u \in DOMAIN flags
                THEN [SeededUsers[u] EXCEPT
                        !.password_change_required = flags[u][1],
                        !.onboarding_completed = flags[u][2]]
                ELSE SeededUsers[u]]

RoleNext ==
    \/ IssueAccessToken
    \/ Protected
    \/ ChangePassword
    \/ CompleteOnboarding
    \/ ResetOnboarding

RoleSpec == RoleInit /\ [][RoleNext]_vars

(***************************************************************************)
(* backend/app/auth.py: refresh tokens across a change of password.  The    *)
(* change-password endpoint revokes the user's refresh sessions and issues  *)
(* a new token pair; an admin's reset revokes them and issues nothing.      *)
(***************************************************************************)
\* Requests answered within a run.
MaxPasswordRequests == 4

\* auth.py lines 600-642 up to the password update.
admin_reset_password(users, username, new_password) ==
    IF Len(new_password) < 8
    THEN [users |-> users,
          answer |-> AuthAnswer(400, "Password must be at least 8 characters.")]
    ELSE IF username \notin DOMAIN users
    THEN [users |-> users, answer |-> AuthAnswer(404, "User not found.")]
    ELSE [users |-> [users EXCEPT ![username].password = new_password,
                                  ![username].password_change_required = TRUE],
          answer |-> Granted]

\* What is remembered of an answered request: the endpoint, the user it
\* named ("" for a refresh), the refresh token presented and the one issued
\* (NULL if none), the number of refresh sessions on file when it arrived
\* and the answer.
PasswordLogEntry(kind, username, token, issued, before, reply) ==
    [kind |-> kind, username |-> username, token |-> token,
     issued |-> issued, before |-> before, answer |-> reply]

PasswordFrame ==
    UNCHANGED <<slots, appointments, appointment_activity, audit_log, config,
                call, pre, result, intake_vars, txn, op, policy_vars,
                clock, lock, procs, auth_login_failures>>

\* main.py lines 255-257: a login that succeeded issues a token pair, its
\* refresh token in a family of its own.
PasswordLogin ==
    /\ Len(auth_log) < MaxPasswordRequests
    /\ \E username \in {"nurse", "ops"} :
          /\ auth_refresh_sessions' =
                issue_refresh_token(auth_refresh_sessions, username, NULL,
                                    clock)
          /\ auth_log' = Append(auth_log,
                PasswordLogEntry("login", username, NULL,
                                 Len(auth_refresh_sessions) + 1,
                                 Len(auth_refresh_sessions), Granted))
    /\ UNCHANGED auth_users
    /\ PasswordFrame

\* main.py lines 267-277: POST /api/v1/auth/refresh, from the decoding of
\* the token (which rejects one whose exp has passed) to the answer.
PasswordRefresh ==
    /\ Len(auth_log) < MaxPasswordRequests
    /\ \E token \in 1..Len(auth_refresh_sessions) :
          LET done == rotate_refresh_token(auth_refresh_sessions, auth_users,
                          token,
                          [id |-> token] @@ auth_refresh_sessions[token],
                          clock, clock)
          IN  IF auth_refresh_sessions[token].expires_at_epoch <= clock
              THEN /\ auth_log' = Append(auth_log,
                          PasswordLogEntry("refresh", "", token, NULL,
                              Len(auth_refresh_sessions),
                              AuthAnswer(401, "Invalid or expired token.")))
                   /\ UNCHANGED auth_refresh_sessions
              ELSE /\ auth_log' = Append(auth_log,
                          PasswordLogEntry("refresh", "", token, done.issued,
                              Len(auth_refresh_sessions), done.answer))
                   /\ auth_refresh_sessions' = done.sessions
    /\ UNCHANGED auth_users
    /\ PasswordFrame

\* main.py lines 281-300: POST /api/v1/auth/change-password by a user that
\* is logged in.
PasswordChange ==
    /\ Len(auth_log) < MaxPasswordRequests
    /\ \E username \in {"nurse", "ops"} :
       \E current_password \in {auth_users[username].password, "wrong-password"},
          new_password \in {auth_users[username].password \o "_new", "short"} :
          LET done == change_password(auth_users, username, current_password,
                                      new_password)
              changed == done.answer = Granted
          IN  /\ auth_users' = done.users
              /\ auth_refresh_sessions' =
                    IF changed
                    THEN issue_refresh_token(
                             revoke_user_sessions(auth_refresh_sessions,
                                                  username),
                             username, NULL, clock)
                    ELSE auth_refresh_sessions
              /\ auth_log' = Append(auth_log,
                    PasswordLogEntry("change-password", username, NULL,
                        IF changed THEN Len(auth_refresh_sessions) + 1
                        ELSE NULL,
                        Len(auth_refresh_sessions), done.answer))
    /\ PasswordFrame

\* auth.py lines 600-642: an admin sets a user's password.
AdminResetPassword ==
    /\ Len(auth_log) < MaxPasswordRequests
    /\ \E username \in {"nurse", "nobody"},
          new_password \in {"reset-by-admin", "short"} :
          LET done == admin_reset_password(auth_users, username, new_password)
          IN  /\ auth_users' = done.users
              /\ auth_refresh_sessions' =
                    IF done.answer = Granted
                    THEN revoke_user_sessions(auth_refresh_sessions, username)
                    ELSE auth_refresh_sessions
              /\ auth_log' = Append(auth_log,
                    PasswordLogEntry("admin-reset", username, NULL, NULL,
                        Len(auth_refresh_sessions), done.answer))
    /\ PasswordFrame

PasswordNext ==
    \/ PasswordLogin
    \/ PasswordRefresh
    \/ PasswordChange
    \/ AdminResetPassword
    \/ AuthTick

PasswordSpec == RefreshInit /\ [][PasswordNext]_vars

(***************************************************************************)
(* service.py: get_audit_view and the row views of each role.  A phone is   *)
(* the sequence of its characters; None and "" are the empty sequence.      *)
(***************************************************************************)
DigitChars == {"0", "1", "2", "3", "4", "5", "6", "7", "8", "9"}

Phones ==
    {<<>>,
     <<"9", "1", "1">>,
     <<"5", "5", "5", "1", "2", "3", "9", "8", "7", "6">>,
     <<"5", "5", "5", "-", "0", "0", "0", "-", "9", "8", "7", "6">>,
     <<"5", "5", "5", "1", "2", "3", "9", "8", "7", "0">>}

SymptomTexts == {"Cough and cold for two days", "Chest pain since morning"}

AuditPayloads == {[urgency |-> "ROUTINE"], [urgency |-> "URGENT"]}

ViewRoles == {"admin", "nurse", "operations", "auditor", " Admin"}

\* Line 197: role.strip().lower().
NormalizedRole(role) ==
    CASE role = " Admin" -> "admin"
      [] OTHER -> role

\* database.py lines 894-920: the row recent_triage_decisions gives for one
\* triage event with its routing decision and patient.
TriageDecisionRow(phone, symptoms) ==
    [triage_event_id |-> 1, created_at |-> FirstClock, urgency |-> "ROUTINE",
     confidence |-> 90, suggested_department |-> "Cardiology",
     human_routing_flag |-> FALSE, routing_action |-> "AUTO_BOOK",
     routing_reason |-> "High confidence.", patient_id |-> 1,
     phone |-> phone, age |-> 26, sex |-> "Female", symptoms |-> symptoms]

\* database.py lines 922-952: the row recent_audit_log gives for one record.
AuditLogRow(payload) ==
    [id |-> 1, entity_type |-> "triage_event", entity_id |-> 1,
     action |-> "TRIAGED", payload |-> payload, created_at |-> FirstClock]

\* Lines 276-283.
_mask_phone(phone) ==
    LET raw == SelectSeq(phone, LAMBDA ch : ch \in DigitChars)
    IN  IF phone = <<>> THEN <<"-">>
        ELSE IF Len(raw) < 4 THEN <<"*", "*", "*">>
        ELSE <<"*", "*", "*", "-", "*", "*", "*", "-">>
                \o SubSeq(raw, Len(raw) - 3, Len(raw))

\* Lines 285-288.
_nurse_view_row(row) == [row EXCEPT !.phone = _mask_phone(row.phone)]

\* The operations row with the patient's phone kept.
_operations_view_row_WithPhone(row) ==
    [f \in {"triage_event_id", "created_at", "urgency", "confidence",
            "suggested_department", "human_routing_flag", "routing_action",
            "routing_reason", "phone"} |-> row[f]]

\* Lines 290-300.
_operations_view_row(row) ==
    [f \in {"triage_event_id", "created_at", "urgency", "confidence",
            "suggested_department", "human_routing_flag", "routing_action",
            "routing_reason"} |-> row[f]]

\* Lines 302-312.
_audit_view_row(row, include_payload) ==
    [f \in {"id", "entity_type", "entity_id", "action", "created_at"}
           \cup (IF include_payload THEN {"payload"} ELSE {}) |-> row[f]]

\* Lines 196-210.
get_audit_view(role, triage_rows, audit_rows) ==
    IF NormalizedRole(role) = "admin"
    THEN [triage |-> triage_rows, audit_log |-> audit_rows]
    ELSE IF NormalizedRole(role) = "nurse"
    THEN [triage |-> [i \in DOMAIN triage_rows |->
                         _nurse_view_row(triage_rows[i])],
          audit_log |-> [i \in DOMAIN audit_rows |->
                            _audit_view_row(audit_rows[i], TRUE)]]
    ELSE [triage |-> [i \in DOMAIN triage_rows |->
                         _operations_view_row(triage_rows[i])],
          audit_log |-> [i \in DOMAIN audit_rows |->
                            _audit_view_row(audit_rows[i], FALSE)]]

\* A role and two stores that differ at most in the patient's phone, the
\* symptoms and the audit payload.
ViewProbes ==
    [kind : {"get_audit_view"}, role : ViewRoles,
     phone : Phones, symptoms : SymptomTexts, payload : AuditPayloads,
     other_phone : Phones, other_symptoms : SymptomTexts,
     other_payload : AuditPayloads]

ViewInit ==
    /\ slots = CHOOSE inv \in Inventories : TRUE
    /\ config = DefaultConfig
    /\ patients = RegisteredPatients
    /\ triage_events = RegisteredTriageEvents
    /\ InitStore
    /\ probe \in ViewProbes
    /\ answer = NoAnswer

\* get_audit_view(role=...) on each of the two stores.
GetAuditView ==
    /\ probe.kind = "get_audit_view"
    /\ answer = NoAnswer
    /\ answer' =
          [kind |-> "views",
           view |-> get_audit_view(probe.role,
                        <<TriageDecisionRow(probe.phone, probe.symptoms)>>,
                        <<AuditLogRow(probe.payload)>>),
           other_view |-> get_audit_view(probe.role,
                        <<TriageDecisionRow(probe.other_phone,
                                            probe.other_symptoms)>>,
                        <<AuditLogRow(probe.other_payload)>>)]
    /\ UNCHANGED <<auth_vars, slots, appointments, appointment_activity,
                   audit_log, config, clock, call, pre, result, lock, procs,
                   intake_vars, txn, op, probe>>

ViewNext == GetAuditView

ViewSpec == ViewInit /\ [][ViewNext]_vars

(***************************************************************************)
(* database.py: list_queue, and the two places where urgencies are          *)
(* compared: its ORDER BY and find_preemptable_appointment.  The inputs are  *)
(* drawn at the start: a queue and a status to list, or a department's      *)
(* booked appointments and the urgency of an incoming case.                 *)
(***************************************************************************)
\* The CASE with the ranks of URGENT and SOON exchanged.
QueuePriorityRank_SoonOverUrgent(priority) ==
    CASE priority = "EMERGENCY" -> 4
      [] priority = "URGENT" -> 2
      [] priority = "SOON" -> 3
      [] OTHER -> 1

\* Lines 375-381: CASE q.priority WHEN ... END.
QueuePriorityRank(priority) ==
    CASE priority = "EMERGENCY" -> 4
      [] priority = "URGENT" -> 3
      [] priority = "SOON" -> 2
      [] OTHER -> 1

\* ORDER BY rank DESC, q.created_at ASC: row a may come before row b.
QueueOrderLeq(a, b) ==
    \/ QueuePriorityRank(a.priority) > QueuePriorityRank(b.priority)
    \/ /\ QueuePriorityRank(a.priority) = QueuePriorityRank(b.priority)
       /\ a.created_at <= b.created_at

\* Lines 351-387: the ids of the rows with q.status = status in an order the
\* ORDER BY allows (SQL leaves the order of rows with equal keys open).
\* The queues here are shorter than the LIMIT.
list_queue(queue, status) ==
    LET selected == {i \in 1..Len(queue) : queue[i].status = status}
        n == Cardinality(selected)
    IN  {listing \in [1..n -> selected] :
            /\ \A i, j \in 1..n : i # j => listing[i] # listing[j]
            /\ \A i, j \in 1..n :
                  i < j => QueueOrderLeq(queue[listing[i]], queue[listing[j]])}

MaxQueue == 3

\* created_at is datetime('now'), to the second: two items may carry the
\* same text, and a later item never an earlier one.
QueueTimes == {0, 1}

QueueRows ==
    [status : {"PENDING", "BOOKED"}, priority : Urgency,
     created_at : QueueTimes]

Queues ==
    UNION {{q \in [1..n -> QueueRows] :
                \A i, j \in 1..n : i < j => q[i].created_at <= q[j].created_at} :
           n \in 0..MaxQueue}

\* Two BOOKED Cardiology appointments on the first two slots of a seeded
\* inventory; `later_first` puts appointment 1 on the later slot.
BookedPairs ==
    {[slots |-> inv,
      appointments |->
         [a \in 1..2 |->
             [patient_id |-> 1, triage_event_id |-> a, urgency |-> urgencies[a],
              department |-> "Cardiology",
              provider |-> inv[IF later_first THEN 3 - a ELSE a].provider,
              slot_id |-> IF later_first THEN 3 - a ELSE a,
              status |-> "BOOKED", note |-> <<>>,
              preempted_from_appointment_id |-> NULL]]] :
        inv \in {CHOOSE i \in Inventories :
                    \A k \in SlotIds : i[k].department = "Cardiology"},
        urgencies \in [1..2 -> Urgency], later_first \in BOOLEAN}

RankProbes ==
    [kind : {"list_queue"}, queue : Queues, status : {"PENDING", "BOOKED"}]
    \cup [kind : {"find_preemptable_appointment"}, booked : BookedPairs,
          higher_urgency : Urgency]

RankInit ==
    /\ slots = CHOOSE inv \in Inventories : TRUE
    /\ config = DefaultConfig
    /\ patients = RegisteredPatients
    /\ triage_events = RegisteredTriageEvents
    /\ InitStore
    /\ probe \in RankProbes
    /\ answer = NoAnswer

RankAnswered(value) ==
    /\ answer = NoAnswer
    /\ answer' = value
    /\ pre' = Store
    /\ UNCHANGED <<auth_vars, slots, appointments, appointment_activity, audit_log,
                   config, clock, call, result, lock, procs, intake_vars,
                   txn, op, probe>>

\* repository.list_queue(status=...).
ListQueue ==
    /\ probe.kind = "list_queue"
    /\ \E listing \in list_queue(probe.queue, probe.status) :
          RankAnswered([kind |-> "listing", listing |-> listing])

\* repository.find_preemptable_appointment(...), with every slot inside the
\* window.
FindPreemptable ==
    /\ probe.kind = "find_preemptable_appointment"
    /\ RankAnswered(
          [kind |-> "candidates",
           candidates |->
              find_preemptable_appointment(
                  [NoStore EXCEPT !.slots = probe.booked.slots,
                                  !.appointments = probe.booked.appointments],
                  "Cardiology", probe.higher_urgency, fallback_window_minutes)])

RankNext == ListQueue \/ FindPreemptable

RankSpec == RankInit /\ [][RankNext]_vars

(***************************************************************************)
(* Vocabulary of the properties.  They are stated over the store before    *)
(* the call (pre), the call's arguments (call), its result and the store    *)
(* after, with times as minutes and plain set comprehensions, not with the  *)
(* repository's queries.                                                    *)
(***************************************************************************)
Called == call # NoCall

StartOf(d, s) == parse_db_time(d.slots[s].start_at)

WindowEnd == call.now + urgency_windows_minutes[call.urgency]

FallbackEnd == call.now + fallback_window_minutes

\* AVAILABLE slots of the department of store d starting in [lo, hi].
FreeSlots(d, department, lo, hi) ==
    {s \in DOMAIN d.slots :
        /\ d.slots[s].department = department
        /\ d.slots[s].status = "AVAILABLE"
        /\ lo <= StartOf(d, s)
        /\ StartOf(d, s) <= hi}

FreeInWindow == FreeSlots(pre, call.department, call.now, WindowEnd)

FreeAfterWindow ==
    FreeSlots(pre, call.department, WindowEnd + 1, FallbackEnd)

Holders(s) == {a \in 1..Len(appointments) : appointments[a].slot_id = s}

StoreUnchanged == Store = pre

\* C1: no two appointments have the same slot_id, and every BOOKED slot is
\* referenced by exactly one appointment.
ExclusiveSlotOwnership ==
    /\ \A a, b \in 1..Len(appointments) :
          a # b => appointments[a].slot_id # appointments[b].slot_id
    /\ \A s \in DOMAIN slots :
          slots[s].status = "BOOKED" => Cardinality(Holders(s)) = 1

\* A preemption has just happened in a ledger that also holds a fallback
\* booking.
ExclusiveSlotOwnershipWitness ==
    /\ result.status = "PREEMPTED"
    /\ \E a \in 1..Len(appointments) : Len(appointments[a].note) = 2
                                        /\ appointments[a].note[2].text =
                                             "booked outside ideal urgency window"

\* C6: a slot is AVAILABLE exactly when its appointment_id is empty; a BOOKED
\* slot names an appointment that holds it and has its department and
\* provider; BOOKED slots and appointments correspond one to one.
SlotAppointmentConsistency ==
    /\ \A s \in DOMAIN slots :
          /\ slots[s].status \in {"AVAILABLE", "BOOKED"}
          /\ slots[s].status = "AVAILABLE" <=> slots[s].appointment_id = NULL
          /\ slots[s].status = "BOOKED" =>
                /\ slots[s].appointment_id \in 1..Len(appointments)
                /\ appointments[slots[s].appointment_id].slot_id = s
                /\ appointments[slots[s].appointment_id].department =
                      slots[s].department
                /\ appointments[slots[s].appointment_id].provider =
                      slots[s].provider
    /\ \A a \in 1..Len(appointments) :
          /\ appointments[a].slot_id \in DOMAIN slots
          /\ slots[appointments[a].slot_id].status = "BOOKED"
          /\ slots[appointments[a].slot_id].appointment_id = a
    /\ \A dep \in Departments :
          Cardinality({s \in DOMAIN slots : slots[s].department = dep
                                            /\ slots[s].status = "BOOKED"})
            = Cardinality({a \in 1..Len(appointments) :
                                appointments[a].department = dep})

\* A displaced appointment sits on a replacement slot of another provider.
SlotAppointmentConsistencyWitness ==
    /\ result.status = "PREEMPTED"
    /\ pre.appointments[result.preempted_appointment_id].provider #
          appointments[result.preempted_appointment_id].provider

HighUrgency == call.urgency \in {"URGENT", "EMERGENCY"}

PreemptionOn == call.allow_preemption /\ config.preemption_enabled

\* Appointments of the department, strictly lower ranked than the incoming
\* case, whose slot starts on or before windowEnd.
LowerPriority ==
    {a \in 1..Len(pre.appointments) :
        /\ pre.appointments[a].department = call.department
        /\ urgency_rank(pre.appointments[a].urgency) <
              urgency_rank(call.urgency)
        /\ StartOf(pre, pre.appointments[a].slot_id) <= WindowEnd}

Moved == {a \in 1..Len(pre.appointments) :
            appointments[a].slot_id # pre.appointments[a].slot_id}

NoteText(note) == [i \in 1..Len(note) |-> note[i].text]

\* C2: a preemptable appointment exists but no AVAILABLE slot between
\* windowEnd and now+fallbackWindow: book returns ESCALATED and slots,
\* appointments and logs are as before the call.
PreemptionSafetyGuard ==
    (/\ Called /\ HighUrgency /\ PreemptionOn
     /\ FreeInWindow = {}
     /\ LowerPriority # {}
     /\ FreeSlots(pre, call.department, WindowEnd, FallbackEnd) = {})
    => /\ result.status = "ESCALATED"
       /\ StoreUnchanged

\* The guard fired while the department had a free slot beyond the fallback
\* window.
PreemptionSafetyGuardWitness ==
    /\ Called /\ HighUrgency /\ PreemptionOn
    /\ FreeInWindow = {}
    /\ LowerPriority # {}
    /\ FreeSlots(pre, call.department, WindowEnd, FallbackEnd) = {}
    /\ \E s \in DOMAIN pre.slots :
          /\ pre.slots[s].department = call.department
          /\ pre.slots[s].status = "AVAILABLE"
          /\ StartOf(pre, s) > FallbackEnd
    /\ NoteText(result.note) =
          <<"Preemption blocked: could not safely reschedule the preempted patient.">>

\* C3: on PREEMPTED the new appointment holds the slot the displaced one held
\* before the call, the displaced one holds the replacement slot (AVAILABLE
\* before, BOOKED after), and both back-references name the displaced one.
PreemptionTakesContestedSlot ==
    result.status = "PREEMPTED" =>
        LET displaced == result.preempted_appointment_id
            incoming == result.appointment_id
        IN  /\ displaced \in 1..Len(pre.appointments)
            /\ incoming = Len(pre.appointments) + 1
            /\ Len(appointments) = incoming
            /\ LET contested == pre.appointments[displaced].slot_id
                   replacement == appointments[displaced].slot_id
               IN  /\ appointments[incoming].slot_id = contested
                   /\ result.slot_id = contested
                   /\ slots[contested].status = "BOOKED"
                   /\ slots[contested].appointment_id = incoming
                   /\ replacement # contested
                   /\ pre.slots[replacement].status = "AVAILABLE"
                   /\ slots[replacement].status = "BOOKED"
                   /\ slots[replacement].appointment_id = displaced
            /\ appointments[incoming].preempted_from_appointment_id = displaced

\* An URGENT case has displaced a ROUTINE appointment.
PreemptionTakesContestedSlotWitness ==
    /\ result.status = "PREEMPTED"
    /\ call.urgency = "URGENT"
    /\ pre.appointments[result.preempted_appointment_id].urgency = "ROUTINE"
    /\ appointments[result.appointment_id].slot_id =
          pre.appointments[result.preempted_appointment_id].slot_id

\* C5: the displaced appointment is one of LowerPriority with the lowest
\* urgency rank and, among those, the earliest slot start; no appointment of
\* equal or higher urgency than the incoming case is moved.
PreemptionCandidateChoice ==
    Called =>
        /\ \A a \in Moved :
              urgency_rank(pre.appointments[a].urgency) <
                 urgency_rank(call.urgency)
        /\ result.status = "PREEMPTED" =>
              LET v == result.preempted_appointment_id
                  Rank(a) == urgency_rank(pre.appointments[a].urgency)
                  Start(a) == StartOf(pre, pre.appointments[a].slot_id)
              IN  /\ Moved = {v}
                  /\ v \in LowerPriority
                  /\ \A b \in LowerPriority :
                        \/ Rank(v) < Rank(b)
                        \/ Rank(v) = Rank(b) /\ Start(v) <= Start(b)

\* The displaced appointment was chosen for its rank over a candidate with an
\* earlier slot.
PreemptionCandidateChoiceWitness ==
    /\ result.status = "PREEMPTED"
    /\ \E b \in LowerPriority :
          /\ StartOf(pre, pre.appointments[b].slot_id) <
                StartOf(pre, pre.appointments[result.preempted_appointment_id].slot_id)
          /\ urgency_rank(pre.appointments[b].urgency) >
                urgency_rank(pre.appointments[result.preempted_appointment_id].urgency)

\* C7: with an AVAILABLE slot of the department in [now, windowEnd], book
\* returns BOOKED for the earliest such slot, flips that slot and no other,
\* and creates one appointment for it with the caller's patient, triage
\* event, urgency and department.
DirectBooking ==
    (Called /\ FreeInWindow # {}) =>
        /\ result.status = "BOOKED"
        /\ result.slot_id \in FreeInWindow
        /\ \A t \in FreeInWindow :
              StartOf(pre, result.slot_id) <= StartOf(pre, t)
        /\ DOMAIN slots = DOMAIN pre.slots
        /\ \A s \in DOMAIN slots :
              s # result.slot_id => slots[s] = pre.slots[s]
        /\ slots[result.slot_id].status = "BOOKED"
        /\ Len(appointments) = Len(pre.appointments) + 1
        /\ SubSeq(appointments, 1, Len(pre.appointments)) = pre.appointments
        /\ result.appointment_id = Len(appointments)
        /\ LET a == appointments[Len(appointments)]
           IN  /\ a.slot_id = result.slot_id
               /\ a.patient_id = call.patient_id
               /\ a.triage_event_id = call.triage_event_id
               /\ a.urgency = call.urgency
               /\ a.department = call.department

\* A direct booking that had two free slots of the window to choose from.
DirectBookingWitness ==
    /\ Called
    /\ Cardinality(FreeInWindow) >= 2
    /\ result.status = "BOOKED"

\* C8: a SOON or ROUTINE case with no AVAILABLE slot in its window gets
\* BOOKED_FALLBACK with the earliest AVAILABLE slot after windowEnd and no
\* later than now+fallbackWindow, the note annotated, or ESCALATED if there is
\* none; it never returns PREEMPTED and moves no existing appointment.
FallbackBooking ==
    (Called /\ call.urgency \in {"SOON", "ROUTINE"}) =>
        /\ result.status # "PREEMPTED"
        /\ \A a \in 1..Len(pre.appointments) :
              appointments[a] = pre.appointments[a]
        /\ FreeInWindow = {} =>
              IF FreeAfterWindow # {}
              THEN /\ result.status = "BOOKED_FALLBACK"
                   /\ result.slot_id \in FreeAfterWindow
                   /\ \A t \in FreeAfterWindow :
                         StartOf(pre, result.slot_id) <= StartOf(pre, t)
                   /\ NoteText(result.note) =
                         NoteText(call.note) \o
                            <<"booked outside ideal urgency window">>
                   /\ appointments[result.appointment_id].slot_id =
                         result.slot_id
                   /\ appointments[result.appointment_id].note = result.note
              ELSE result.status = "ESCALATED"

\* A SOON case escalated although the department had a free slot: the slot
\* starts after now+fallbackWindow.
FallbackBookingWitness ==
    /\ Called /\ call.urgency = "SOON"
    /\ FreeInWindow = {} /\ FreeAfterWindow = {}
    /\ result.status = "ESCALATED"
    /\ \E s \in DOMAIN pre.slots :
          /\ pre.slots[s].department = call.department
          /\ pre.slots[s].status = "AVAILABLE"
          /\ StartOf(pre, s) > FallbackEnd

\* C9: an URGENT or EMERGENCY case with no AVAILABLE slot in its window and
\* preemption disallowed by the caller or disabled in the configuration gets
\* ESCALATED and nothing changes; such a case never gets BOOKED_FALLBACK.
PreemptionDisallowed ==
    (Called /\ HighUrgency) =>
        /\ result.status # "BOOKED_FALLBACK"
        /\ (FreeInWindow = {} /\ ~PreemptionOn) =>
              /\ result.status = "ESCALATED"
              /\ StoreUnchanged

\* The caller disallowed a preemption that was otherwise possible.
PreemptionDisallowedWitness ==
    /\ Called /\ HighUrgency
    /\ ~call.allow_preemption /\ config.preemption_enabled
    /\ FreeInWindow = {}
    /\ LowerPriority # {}
    /\ FreeAfterWindow # {}
    /\ result.status = "ESCALATED"

\* C10: an URGENT or EMERGENCY case with preemption on, no AVAILABLE slot in
\* its window and no appointment of strictly lower urgency starting on or
\* before windowEnd gets ESCALATED with the no-lower-priority note and
\* nothing changes.
NoPreemptableCandidate ==
    (/\ Called /\ HighUrgency /\ PreemptionOn
     /\ FreeInWindow = {}
     /\ LowerPriority = {})
    => /\ result.status = "ESCALATED"
       /\ NoteText(result.note) =
             <<"No lower-priority appointment available for preemption.">>
       /\ StoreUnchanged

\* The only booked appointment in the window has the incoming case's own
\* urgency, and a replacement slot would have been free.
NoPreemptableCandidateWitness ==
    /\ Called /\ HighUrgency /\ PreemptionOn
    /\ FreeInWindow = {}
    /\ LowerPriority = {}
    /\ FreeAfterWindow # {}
    /\ \E a \in 1..Len(pre.appointments) :
          /\ pre.appointments[a].department = call.department
          /\ pre.appointments[a].urgency = call.urgency
          /\ StartOf(pre, pre.appointments[a].slot_id) <= WindowEnd
    /\ result.status = "ESCALATED"

\* C11: a book call that raises leaves slots, appointments, activity and
\* audit records (and every other table) exactly as they were before the
\* call, whatever it had written by then; its caller gets the error, not an
\* ESCALATED or booked result; and a call returns a result only when all it
\* wrote is committed.
RollbackOnError ==
    Called =>
        /\ result.status = "RAISED" =>
              /\ StoreUnchanged
              /\ result.appointment_id = NULL
        /\ txn # pre => (result.status = "RAISED" <=> Store # txn)
        /\ call.patient_id \notin 1..Len(pre.patients) =>
              /\ result.status \in {"RAISED", "ESCALATED"}
              /\ result.status = "ESCALATED" => txn = pre

\* The incoming appointment's INSERT failed after the displaced appointment
\* had been moved to its replacement slot; the move is undone.
RollbackOnErrorWitness ==
    /\ Called
    /\ result.status = "RAISED"
    /\ \E a \in 1..Len(pre.appointments) :
          /\ txn.appointments[a].slot_id # pre.appointments[a].slot_id
          /\ txn.slots[pre.appointments[a].slot_id].status = "BOOKED"
          /\ appointments[a].slot_id = pre.appointments[a].slot_id
    /\ StoreUnchanged

\* C12: create_appointment on a slot that is not AVAILABLE raises "Slot is no
\* longer available.", writes nothing (no appointment, no activity record,
\* no audit record) and leaves the slot with its owner; it succeeds only on
\* a slot that was AVAILABLE.
CreateOnTakenSlotFails ==
    op.name = "create_appointment" =>
        /\ pre.slots[op.slot_id].status # "AVAILABLE" =>
              /\ ~op.ok
              /\ op.error = "Slot is no longer available."
              /\ txn = pre
              /\ StoreUnchanged
              /\ slots[op.slot_id].appointment_id =
                    pre.slots[op.slot_id].appointment_id
        /\ op.ok => pre.slots[op.slot_id].status = "AVAILABLE"

\* The call was made on a slot held by an appointment that got it in a
\* preemption.
CreateOnTakenSlotFailsWitness ==
    /\ op.name = "create_appointment"
    /\ ~op.ok
    /\ pre.slots[op.slot_id].status = "BOOKED"
    /\ appointments[slots[op.slot_id].appointment_id]
            .preempted_from_appointment_id # NULL

Decided == answer # NoAnswer /\ answer.kind = "decisions"

\* The thresholds and flags in force for the evaluations: the caller's
\* argument when one was given, the configured value otherwise.
UsedConfidenceThreshold ==
    IF probe.args.confidence_threshold # <<>>
    THEN probe.args.confidence_threshold[1]
    ELSE answer.config.auto_book_confidence_threshold

UsedDepartmentThreshold ==
    IF probe.args.department_threshold # <<>>
    THEN probe.args.department_threshold[1]
    ELSE answer.config.department_score_threshold

RouteOnModelRequest ==
    IF probe.args.always_route_when_model_requests_human # <<>>
    THEN probe.args.always_route_when_model_requests_human[1]
    ELSE answer.config.always_route_when_model_requests_human

AutoBookHighUrgency ==
    IF probe.args.auto_book_high_urgency # <<>>
    THEN probe.args.auto_book_high_urgency[1]
    ELSE answer.config.auto_book_high_urgency

\* Score of the first department candidate, 0 without candidates.
TopScore ==
    IF Len(answer.triage_result.department_candidates) = 0 THEN 0
    ELSE answer.triage_result.department_candidates[1].score

Rule1 == answer.triage_result.urgency = "EMERGENCY" /\ ~AutoBookHighUrgency

Rule2 == RouteOnModelRequest /\ answer.triage_result.human_routing_flag

Rule3 == answer.triage_result.confidence < UsedConfidenceThreshold

Rule4 == TopScore < UsedDepartmentThreshold

\* C13: the five rules in order, the first that matches fixing action and
\* reason; the decision records the thresholds used, the caller's override
\* when given, else the configured default.
FirstMatchingRule ==
    Decided =>
        \A i \in 1..Len(answer.decisions) :
            LET d == answer.decisions[i]
                emergency == answer.triage_result.urgency = "EMERGENCY"
            IN  /\ d.confidence_threshold = UsedConfidenceThreshold
                /\ d.department_threshold = UsedDepartmentThreshold
                /\ Rule1 =>
                      /\ d.action = "ESCALATE"
                      /\ d.reason =
                            "Emergency cases are configured for mandatory human escalation."
                /\ (~Rule1 /\ Rule2) =>
                      /\ d.action = IF emergency THEN "ESCALATE"
                                    ELSE "QUEUE_REVIEW"
                      /\ d.reason = "Model requested human routing."
                /\ (~Rule1 /\ ~Rule2 /\ Rule3) =>
                      /\ d.action = IF emergency THEN "ESCALATE"
                                    ELSE "QUEUE_REVIEW"
                      /\ d.reason = "Confidence below policy threshold."
                /\ (~Rule1 /\ ~Rule2 /\ ~Rule3 /\ Rule4) =>
                      /\ d.action = "QUEUE_REVIEW"
                      /\ d.reason =
                            "Department certainty below policy threshold."
                /\ (~Rule1 /\ ~Rule2 /\ ~Rule3 /\ ~Rule4) =>
                      /\ d.action = "AUTO_BOOK"
                      /\ d.reason = "All routing policy thresholds satisfied."

\* Rule 2 decided a case that rules 3 and 4 match as well, under a caller's
\* confidence threshold that differs from the configured one.
FirstMatchingRuleWitness ==
    /\ Decided
    /\ ~Rule1 /\ Rule2 /\ Rule3 /\ Rule4
    /\ probe.args.confidence_threshold # <<>>
    /\ answer.decisions[1].confidence_threshold #
          answer.config.auto_book_confidence_threshold
    /\ answer.decisions[1].reason = "Model requested human routing."

\* C14: AUTO_BOOK is returned exactly when confidence >= confidence
\* threshold, top department score >= department threshold (0 without
\* candidates), not (route-on-model-request and human_routing_flag) and not
\* (EMERGENCY and auto-book-for-high-urgency disabled); equality with a
\* threshold satisfies it.
AutoBookOnlyWhenAllSatisfied ==
    Decided =>
        \A i \in 1..Len(answer.decisions) :
            answer.decisions[i].action = "AUTO_BOOK" <=>
                /\ answer.triage_result.confidence >= UsedConfidenceThreshold
                /\ TopScore >= UsedDepartmentThreshold
                /\ ~(RouteOnModelRequest
                     /\ answer.triage_result.human_routing_flag)
                /\ ~(answer.triage_result.urgency = "EMERGENCY"
                     /\ ~AutoBookHighUrgency)

\* AUTO_BOOK with confidence and score both exactly at their thresholds.
AutoBookOnlyWhenAllSatisfiedWitness ==
    /\ Decided
    /\ answer.decisions[1].action = "AUTO_BOOK"
    /\ answer.triage_result.confidence = UsedConfidenceThreshold
    /\ TopScore = UsedDepartmentThreshold

\* C15: confidence below the threshold gives QUEUE_REVIEW for URGENT, SOON
\* and ROUTINE and ESCALATE for EMERGENCY; an EMERGENCY case with the
\* human-routing flag set, routing on model request in force, is ESCALATEd
\* whatever its confidence.
LowConfidenceRouting ==
    Decided =>
        \A i \in 1..Len(answer.decisions) :
            LET d == answer.decisions[i]
                t == answer.triage_result
            IN  /\ (t.confidence < UsedConfidenceThreshold
                     /\ t.urgency \in {"URGENT", "SOON", "ROUTINE"})
                   => d.action = "QUEUE_REVIEW"
                /\ (t.confidence < UsedConfidenceThreshold
                     /\ t.urgency = "EMERGENCY")
                   => d.action = "ESCALATE"
                /\ (t.urgency = "EMERGENCY" /\ t.human_routing_flag
                     /\ RouteOnModelRequest)
                   => d.action = "ESCALATE"

\* An EMERGENCY case escalated for its low confidence alone: auto-booking
\* of high urgency is on and the model did not ask for a human.
LowConfidenceRoutingWitness ==
    /\ Decided
    /\ answer.triage_result.urgency = "EMERGENCY"
    /\ AutoBookHighUrgency
    /\ ~answer.triage_result.human_routing_flag
    /\ answer.triage_result.confidence < UsedConfidenceThreshold
    /\ answer.decisions[1].action = "ESCALATE"
    /\ answer.decisions[1].reason = "Confidence below policy threshold."

Analyzed == answer # NoAnswer /\ answer.kind = "triage"

\* C19: when the primary raises the hybrid reasoner returns (does not raise)
\* the fallback's result with human_routing_flag true, confidence the
\* smaller of the fallback's and 0.79, the marker appended to the rationale
\* and every other field as the fallback gave it; when the primary returns,
\* its result is returned as it is.
HybridFallback ==
    Analyzed =>
        IF probe.primary.raised
        THEN LET fb == probe.fallback_result
                 out == answer.outcome
             IN  /\ ~out.raised
                 /\ out.value.human_routing_flag
                 /\ out.value.confidence <= 79
                 /\ out.value.confidence <= fb.confidence
                 /\ fb.confidence <= 79 => out.value.confidence = fb.confidence
                 /\ Len(out.value.rationale) = Len(fb.rationale) + 1
                 /\ SubSeq(out.value.rationale, 1, Len(fb.rationale)) =
                       fb.rationale
                 /\ out.value.rationale[Len(out.value.rationale)] =
                       " Fallback reasoner used because LLM structured output failed."
                 /\ out.value.urgency = fb.urgency
                 /\ out.value.suggested_department = fb.suggested_department
                 /\ out.value.department_candidates = fb.department_candidates
        ELSE answer.outcome = probe.primary

\* The primary raised and the fallback was below the cap and had not asked
\* for a human: its confidence is kept, the flag is set.
HybridFallbackWitness ==
    /\ Analyzed
    /\ probe.primary.raised
    /\ probe.fallback_result.confidence < 79
    /\ ~probe.fallback_result.human_routing_flag
    /\ answer.outcome.value.confidence = probe.fallback_result.confidence
    /\ answer.outcome.value.human_routing_flag

(***************************************************************************)
(* service.py: what holds when a service call has ended (op names it, pre   *)
(* is the store it started from).                                           *)
(***************************************************************************)
IntakeReturned == op.name = "process_intake" /\ ~op.raised

AppointmentsOf(d, triage_event_id) ==
    {i \in 1..Len(d.appointments) :
        d.appointments[i].triage_event_id = triage_event_id}

QueueItemsOf(d, triage_event_id) ==
    {i \in 1..Len(d.nurse_queue) :
        d.nurse_queue[i].triage_event_id = triage_event_id}

\* The call appended exactly one queue item, PENDING, for this case.
OneNewQueueItem(triage_event_id) ==
    /\ Len(nurse_queue) = Len(pre.nurse_queue) + 1
    /\ SubSeq(nurse_queue, 1, Len(pre.nurse_queue)) = pre.nurse_queue
    /\ nurse_queue[Len(nurse_queue)].status = "PENDING"
    /\ nurse_queue[Len(nurse_queue)].triage_event_id = triage_event_id

\* C17: whenever process_intake returns, the case has exactly one of an
\* appointment or a queue item: with AUTO_BOOK and a scheduler status of
\* BOOKED, BOOKED_FALLBACK or PREEMPTED the queue is as it was; with
\* AUTO_BOOK and ESCALATED one PENDING item is appended with the urgency as
\* priority and "Auto-book failed:" followed by the scheduler's note as
\* reason; with QUEUE_REVIEW or ESCALATE one PENDING item is appended with
\* the policy's reason and the scheduler is not invoked (no call, slots and
\* appointments as they were).
IntakeOneAppointmentOrQueueItem ==
    IntakeReturned =>
        LET id == op.ids.triage_event_id
            urgency == op.req.triage_result.urgency
        IN  /\ \/ /\ Cardinality(AppointmentsOf(Store, id)) = 1
                  /\ QueueItemsOf(Store, id) = {}
               \/ /\ AppointmentsOf(Store, id) = {}
                  /\ Cardinality(QueueItemsOf(Store, id)) = 1
            /\ op.routing.action = "AUTO_BOOK"
               /\ result.status \in {"BOOKED", "BOOKED_FALLBACK", "PREEMPTED"}
               => /\ nurse_queue = pre.nurse_queue
                  /\ op.queue_id = NULL
            /\ op.routing.action = "AUTO_BOOK" /\ result.status = "ESCALATED"
               => /\ OneNewQueueItem(id)
                  /\ op.queue_id = Len(nurse_queue)
                  /\ nurse_queue[Len(nurse_queue)].priority = urgency
                  /\ nurse_queue[Len(nurse_queue)].reason =
                        Text("Auto-book failed:") \o result.note
            /\ op.routing.action \in {"QUEUE_REVIEW", "ESCALATE"}
               => /\ OneNewQueueItem(id)
                  /\ op.queue_id = Len(nurse_queue)
                  /\ nurse_queue[Len(nurse_queue)].priority = urgency
                  /\ nurse_queue[Len(nurse_queue)].reason =
                        Text(op.routing.reason)
                  /\ call = NoCall
                  /\ slots = pre.slots
                  /\ appointments = pre.appointments
            /\ op.routing.action = "AUTO_BOOK"
               => /\ call # NoCall
                  /\ result.status \in {"BOOKED", "BOOKED_FALLBACK",
                                        "PREEMPTED", "ESCALATED"}

\* The second intake was sent to AUTO_BOOK, the scheduler escalated it and
\* the case is in the queue with no appointment, next to a booked one.
IntakeOneAppointmentOrQueueItemWitness ==
    /\ IntakeReturned
    /\ op.routing.action = "AUTO_BOOK"
    /\ result.status = "ESCALATED"
    /\ AppointmentsOf(Store, op.ids.triage_event_id) = {}
    /\ Cardinality(QueueItemsOf(Store, op.ids.triage_event_id)) = 1
    /\ Len(appointments) = 1
    /\ Len(nurse_queue) = 1

QueueCallEnded == op.name = "book_from_queue"

\* The queue item the call named was on file and PENDING when it started.
WasPending ==
    /\ op.req.queue_id \in 1..Len(pre.nurse_queue)
    /\ pre.nurse_queue[op.req.queue_id].status = "PENDING"

NewlyDispatched == SubSeq(dispatched, op.sent_before + 1, Len(dispatched))

ServiceCallEnded == op.name \in {"process_intake", "book_from_queue"}

\* The audit records the call appended.
NewAuditRecords == SubSeq(audit_log, Len(pre.audit_log) + 1, Len(audit_log))

IsNotificationRecord(record) ==
    record.action \in {"NOTIFICATION_DISPATCHED", "NOTIFICATION_FAILED"}

\* C21: a failing dispatch never makes process_intake or book_from_queue
\* fail and never undoes the queue item or booking already made, and every
\* dispatch attempt writes exactly one audit record: NOTIFICATION_DISPATCHED
\* with the deliveries when dispatch returned, NOTIFICATION_FAILED with the
\* error when it raised.
NotificationFailureIsContained ==
    ServiceCallEnded =>
        LET records == SelectSeq(NewAuditRecords, IsNotificationRecord)
        IN  /\ Len(records) = Len(op.attempts)
            /\ Len(NewlyDispatched) = Len(op.attempts)
            /\ \A k \in 1..Len(op.attempts) :
                  IF op.attempts[k].raised
                  THEN /\ records[k].action = "NOTIFICATION_FAILED"
                       /\ records[k].payload.error = op.attempts[k].error
                  ELSE /\ records[k].action = "NOTIFICATION_DISPATCHED"
                       /\ records[k].payload.deliveries = op.attempts[k].value
            /\ op.attempts # <<>> =>
                  /\ ~op.raised
                  /\ Len(appointments) >= Len(pre.appointments)
                  /\ \A i \in 1..Len(pre.appointments) :
                        appointments[i].status = "BOOKED"
                  /\ IF op.name = "process_intake"
                     THEN /\ op.queue_id = Len(nurse_queue)
                          /\ Len(nurse_queue) = Len(pre.nurse_queue) + 1
                          /\ nurse_queue[op.queue_id].status = "PENDING"
                          /\ nurse_queue[op.queue_id].triage_event_id =
                                op.ids.triage_event_id
                     ELSE nurse_queue[op.req.queue_id].status = "ESCALATED"

\* The dispatch of a policy-escalated intake raised: the intake returned,
\* its queue item is on file and the failure is in the audit log.
NotificationFailureIsContainedWitness ==
    /\ IntakeReturned
    /\ op.routing.action = "ESCALATE"
    /\ Len(op.attempts) = 1
    /\ op.attempts[1].raised
    /\ nurse_queue[op.queue_id].status = "PENDING"
    /\ audit_log[Len(audit_log)].action = "NOTIFICATION_FAILED"

\* The activity records the call appended.
NewActivity ==
    SubSeq(appointment_activity, Len(pre.appointment_activity) + 1,
           Len(appointment_activity))

\* C22: the activity log is append-only and complete: a step keeps the
\* records there were, in place; every appointment has a BOOKED record; a
\* direct or fallback booking appends that one record; a preemption appends,
\* in this order, RESCHEDULED on the displaced appointment, BOOKED on the new
\* one, PREEMPTED_OUT on the displaced one (naming the new appointment and
\* the replacement slot) and PREEMPTED_IN on the new one (naming the
\* displaced appointment and the contested slot); a call that returns
\* ESCALATED appends nothing.
ActivityLogComplete ==
    /\ Len(appointment_activity) >= Len(pre.appointment_activity)
    /\ SubSeq(appointment_activity, 1, Len(pre.appointment_activity)) =
          pre.appointment_activity
    /\ \A a \in 1..Len(appointments) :
          \E k \in 1..Len(appointment_activity) :
              /\ appointment_activity[k].appointment_id = a
              /\ appointment_activity[k].activity_type = "BOOKED"
    /\ result.status \in {"BOOKED", "BOOKED_FALLBACK"} =>
          /\ Len(NewActivity) = 1
          /\ NewActivity[1].appointment_id = result.appointment_id
          /\ NewActivity[1].activity_type = "BOOKED"
          /\ NewActivity[1].details.slot_id = result.slot_id
    /\ result.status = "PREEMPTED" =>
          LET displaced == result.preempted_appointment_id
              incoming == result.appointment_id
              contested == pre.appointments[displaced].slot_id
              replacement == appointments[displaced].slot_id
          IN  /\ Len(NewActivity) = 4
              /\ NewActivity[1].appointment_id = displaced
              /\ NewActivity[1].activity_type = "RESCHEDULED"
              /\ NewActivity[1].details.old_slot_id = contested
              /\ NewActivity[1].details.new_slot_id = replacement
              /\ NewActivity[2].appointment_id = incoming
              /\ NewActivity[2].activity_type = "BOOKED"
              /\ NewActivity[2].details.slot_id = contested
              /\ NewActivity[3].appointment_id = displaced
              /\ NewActivity[3].activity_type = "PREEMPTED_OUT"
              /\ NewActivity[3].details.by_appointment_id = incoming
              /\ NewActivity[3].details.new_slot_id = replacement
              /\ NewActivity[4].appointment_id = incoming
              /\ NewActivity[4].activity_type = "PREEMPTED_IN"
              /\ NewActivity[4].details.preempted_appointment_id = displaced
              /\ NewActivity[4].details.slot_id = contested
    /\ result.status = "ESCALATED" => NewActivity = <<>>

\* A preemption on top of an earlier booking: the log holds the earlier
\* BOOKED record followed by the four records of the preemption.
ActivityLogCompleteWitness ==
    /\ result.status = "PREEMPTED"
    /\ Len(pre.appointment_activity) >= 1
    /\ Len(appointment_activity) = Len(pre.appointment_activity) + 4
    /\ NewActivity[3].activity_type = "PREEMPTED_OUT"
    /\ NewActivity[4].activity_type = "PREEMPTED_IN"

\* The appointments on file before the call that the call changed.
Rewritten == {a \in 1..Len(pre.appointments) :
                appointments[a] # pre.appointments[a]}

\* C23: a book call never creates or deletes a slot (the slot ids, start
\* times, departments and providers are as before) and never deletes an
\* appointment; every appointment has status BOOKED; the only appointment
\* on file whose row a call changes is the one it preempts, in slot_id,
\* provider and note only, and a call that returns BOOKED, BOOKED_FALLBACK
\* or ESCALATED changes none.
BookFrame ==
    /\ DOMAIN slots = DOMAIN pre.slots
    /\ \A i \in DOMAIN slots :
          /\ slots[i].start_at = pre.slots[i].start_at
          /\ slots[i].department = pre.slots[i].department
          /\ slots[i].provider = pre.slots[i].provider
    /\ Len(appointments) >= Len(pre.appointments)
    /\ \A a \in 1..Len(appointments) : appointments[a].status = "BOOKED"
    /\ Rewritten = IF result.status = "PREEMPTED"
                   THEN {result.preempted_appointment_id} ELSE {}
    /\ \A a \in Rewritten :
          [appointments[a] EXCEPT
              !.slot_id = pre.appointments[a].slot_id,
              !.provider = pre.appointments[a].provider,
              !.note = pre.appointments[a].note] = pre.appointments[a]
    /\ Called /\ result.status # "PREEMPTED" =>
          Len(appointments) =
             Len(pre.appointments)
             + (IF result.status \in {"BOOKED", "BOOKED_FALLBACK"}
                THEN 1 ELSE 0)

\* A preemption with a second earlier appointment on file: the displaced
\* one moved to a slot of another provider, the other is untouched.
BookFrameWitness ==
    /\ result.status = "PREEMPTED"
    /\ Len(pre.appointments) = 2
    /\ Rewritten = {result.preempted_appointment_id}
    /\ appointments[result.preempted_appointment_id].provider #
          pre.appointments[result.preempted_appointment_id].provider

IntakeEnded == op.name = "process_intake"

\* C24: the intake transaction is all-or-nothing: a process_intake whose
\* transaction completes adds one patient, one triage event of that patient
\* and one routing decision of that event, together; if a step of the
\* transaction raises, process_intake raises and the store holds none of
\* them, whatever had been inserted before the error; the scheduler is
\* called only on the committed intake (the three rows written, slots and
\* appointments not yet touched) and never when the transaction failed.
IntakeAllOrNothing ==
    IntakeEnded =>
        IF op.fault = "none"
        THEN /\ Len(patients) = Len(pre.patients) + 1
             /\ Len(triage_events) = Len(pre.triage_events) + 1
             /\ Len(routing_decisions) = Len(pre.routing_decisions) + 1
             /\ triage_events[Len(triage_events)].patient_id = Len(patients)
             /\ routing_decisions[Len(routing_decisions)].triage_event_id =
                   Len(triage_events)
             /\ routing_decisions[Len(routing_decisions)].action =
                   op.routing.action
             /\ call # NoCall =>
                   /\ op.intake.patients = patients
                   /\ op.intake.triage_events = triage_events
                   /\ op.intake.routing_decisions = routing_decisions
                   /\ op.intake.slots = pre.slots
                   /\ op.intake.appointments = pre.appointments
                   /\ call.patient_id = Len(patients)
                   /\ call.triage_event_id = Len(triage_events)
        ELSE /\ op.raised
             /\ patients = pre.patients
             /\ triage_events = pre.triage_events
             /\ routing_decisions = pre.routing_decisions
             /\ Store = pre
             /\ call = NoCall

\* The insert of the routing decision raised after the patient and the
\* triage event had been inserted: neither is in the store.
IntakeAllOrNothingWitness ==
    /\ IntakeEnded
    /\ op.fault = "create_routing_decision"
    /\ Len(op.intake.patients) = Len(pre.patients) + 1
    /\ Len(op.intake.triage_events) = Len(pre.triage_events) + 1
    /\ patients = pre.patients
    /\ triage_events = pre.triage_events
    /\ Len(patients) = 1

\* EMERGENCY > URGENT > SOON > ROUTINE, as a relation: u is above v.
Above(u, v) ==
    <<u, v>> \in {<<"EMERGENCY", "URGENT">>, <<"EMERGENCY", "SOON">>,
                  <<"EMERGENCY", "ROUTINE">>, <<"URGENT", "SOON">>,
                  <<"URGENT", "ROUTINE">>, <<"SOON", "ROUTINE">>}

Listed == answer # NoAnswer /\ answer.kind = "listing"

CandidatesFound == answer # NoAnswer /\ answer.kind = "candidates"

\* C25: urgency rank is the one total order EMERGENCY > URGENT > SOON >
\* ROUTINE wherever urgencies are compared: urgency_rank orders the four
\* urgencies so; the preemption candidates are appointments of an urgency
\* below the incoming one, of the lowest urgency there is among those and,
\* at that urgency, on the earliest slot; list_queue returns exactly the
\* items of the requested status, each once, a higher urgency before a lower
\* one and, at equal urgency, an earlier created_at before a later one.
OneUrgencyOrder ==
    /\ \A u, v \in Urgency :
          /\ urgency_rank(u) > urgency_rank(v) <=> Above(u, v)
          /\ urgency_rank(u) = urgency_rank(v) <=> u = v
    /\ CandidatesFound =>
          LET rows == probe.booked.appointments
              start(a) == probe.booked.slots[rows[a].slot_id].start_at
              lower == {a \in 1..Len(rows) :
                            Above(probe.higher_urgency, rows[a].urgency)}
          IN  /\ answer.candidates \subseteq lower
              /\ answer.candidates = {} <=> lower = {}
              /\ \A a \in answer.candidates, b \in lower :
                    /\ ~Above(rows[a].urgency, rows[b].urgency)
                    /\ rows[a].urgency = rows[b].urgency =>
                          TextLeq(start(a), start(b))
    /\ Listed =>
          LET queue == probe.queue
              listing == answer.listing
          IN  /\ {listing[k] : k \in 1..Len(listing)} =
                    {i \in 1..Len(queue) : queue[i].status = probe.status}
              /\ \A j, k \in 1..Len(listing) :
                    j < k =>
                       /\ listing[j] # listing[k]
                       /\ ~Above(queue[listing[k]].priority,
                                 queue[listing[j]].priority)
                       /\ queue[listing[j]].priority =
                             queue[listing[k]].priority =>
                                queue[listing[j]].created_at <=
                                   queue[listing[k]].created_at

\* A PENDING listing of a queue of three: the newest item, an URGENT one,
\* precedes an older SOON item, and the item that is not PENDING is left
\* out.
OneUrgencyOrderWitness ==
    /\ Listed
    /\ probe.status = "PENDING"
    /\ Len(answer.listing) = 2
    /\ Len(probe.queue) = 3
    /\ probe.queue[answer.listing[1]].priority = "URGENT"
    /\ probe.queue[answer.listing[2]].priority = "SOON"
    /\ answer.listing[1] > answer.listing[2]
    /\ probe.queue[answer.listing[1]].created_at >
          probe.queue[answer.listing[2]].created_at

RefreshAnswers == {i \in 1..Len(auth_log) : auth_log[i].kind = "refresh"}

Exchanged(i) == auth_log[i].answer.status_code = 200

FamilyOf(jti) == auth_refresh_sessions[jti].family_id

FamilyRevoked(family_id) ==
    \A j \in 1..Len(auth_refresh_sessions) :
        auth_refresh_sessions[j].family_id = family_id
            => auth_refresh_sessions[j].revoked

\* Answer j presents the token that answer i exchanged before it.
PresentsRotated(i, j) ==
    /\ i < j
    /\ Exchanged(i)
    /\ auth_log[j].token = auth_log[i].token

\* After answer j the token's family is revoked and the token that answer i
\* issued is refused.
ReuseRevokes(i, j) ==
    /\ ~Exchanged(j)
    /\ FamilyRevoked(FamilyOf(auth_log[j].token))
    /\ \A k \in RefreshAnswers :
          (j < k /\ auth_log[k].token = auth_log[i].issued) => ~Exchanged(k)

ExchangedAtMostOnce ==
    \A i, j \in RefreshAnswers :
        (Exchanged(i) /\ Exchanged(j) /\ auth_log[i].token = auth_log[j].token)
            => i = j

\* C26 as stated: a refresh token is exchanged at most once, and presenting
\* an already rotated token is refused and revokes its whole family, so the
\* token issued by the earlier rotation is refused afterwards.
RotatedTokenRevokesFamily ==
    /\ ExchangedAtMostOnce
    /\ \A i, j \in RefreshAnswers : PresentsRotated(i, j) => ReuseRevokes(i, j)

\* C26: a refresh token is exchanged at most once, also when two requests
\* with the same token race; presenting an already rotated token whose expiry
\* has not passed is refused and revokes its whole family, so the token
\* issued by the earlier rotation is refused afterwards; a rotated token
\* presented after its expiry is refused as well.
UnexpiredRotatedTokenRevokesFamily ==
    /\ ExchangedAtMostOnce
    /\ \A i, j \in RefreshAnswers :
          PresentsRotated(i, j) =>
             /\ ~Exchanged(j)
             /\ ~auth_log[j].expired => ReuseRevokes(i, j)

\* A token was exchanged, presented again and refused as reuse, and then the
\* token the exchange issued was presented and refused.
UnexpiredRotatedTokenRevokesFamilyWitness ==
    \E i, j, k \in RefreshAnswers :
        /\ PresentsRotated(i, j)
        /\ auth_log[j].answer.detail = "Refresh token reuse detected."
        /\ j < k
        /\ auth_log[k].token = auth_log[i].issued
        /\ auth_log[k].answer.status_code = 401

LoginAnswers == {i \in 1..Len(auth_log) : auth_log[i].kind = "login"}

SamePair(i, j) ==
    /\ auth_log[i].username_key = auth_log[j].username_key
    /\ auth_log[i].source_ip_key = auth_log[j].source_ip_key

RightCredentials(i) ==
    authenticate(auth_users, auth_log[i].request.username,
                 auth_log[i].request.password)

Refused(i) ==
    /\ auth_log[i].answer.status_code = 429
    /\ auth_log[i].answer.retry_after # NULL
    /\ auth_log[i].answer.retry_after > 0

\* The failed logins of j's pair that came before j inside the window, with
\* no successful login of the pair since.
CountedFailures(j) ==
    {i \in LoginAnswers :
        /\ i < j
        /\ SamePair(i, j)
        /\ auth_log[i].answer.status_code = 401
        /\ auth_log[i].at >= auth_log[j].at - LoginWindow
        /\ \A k \in LoginAnswers :
              (i < k /\ k < j /\ SamePair(k, j))
                  => auth_log[k].answer.status_code # 200}

\* The failed login that reaches the limit is refused.
LimitReachedIsRefused ==
    \A j \in LoginAnswers :
        (~RightCredentials(j)
         /\ Cardinality(CountedFailures(j)) >= LoginMaxAttempts - 1)
            => Refused(j)

\* Every attempt of the pair made before a refusal's Retry-After has run out
\* is refused.
LockoutIsServed ==
    \A i, j \in LoginAnswers :
        (/\ i < j
         /\ SamePair(i, j)
         /\ Refused(i)
         /\ auth_log[j].at < auth_log[i].at + auth_log[i].answer.retry_after)
            => Refused(j)

\* A login with the right credentials whose pair has no failed login is
\* let in, whatever other pairs did.
OtherPairsUnaffected ==
    \A j \in LoginAnswers :
        (/\ RightCredentials(j)
         /\ \A i \in LoginAnswers : (i < j /\ SamePair(i, j)) => RightCredentials(i))
            => auth_log[j].answer.status_code = 200

\* Right after a successful login no failure of its pair is recorded.
SuccessClearsFailures ==
    (auth_log # <<>> /\ auth_log[Len(auth_log)].kind = "login"
        /\ auth_log[Len(auth_log)].answer.status_code = 200)
        => \A f \in 1..Len(auth_login_failures) :
              ~(/\ auth_login_failures[f].username
                      = auth_log[Len(auth_log)].username_key
                /\ auth_login_failures[f].source_ip
                      = auth_log[Len(auth_log)].source_ip_key)

\* C27: once login_max_attempts logins of one (normalised username, source
\* address) pair failed inside the window, the attempt reaching the limit and
\* every later attempt of the pair, right password included, is refused with
\* 429 and Retry-After while the lockout lasts; the same username from
\* another address is unaffected; a successful login clears its pair's
\* failures.
LockoutAfterMaxAttempts ==
    /\ LimitReachedIsRefused
    /\ LockoutIsServed
    /\ OtherPairsUnaffected
    /\ SuccessClearsFailures

\* C30: with trust in X-Forwarded-For off, every login attempt is counted
\* under the connection's client address, and the answer and the failures
\* recorded are the same whatever the header holds.
ForwardedHeaderIgnored ==
    ~config.trust_forwarded =>
        /\ \A i \in LoginAnswers :
              auth_log[i].source_ip_key = auth_log[i].request.client
        /\ \A request \in LoginRequests, forwarded \in ForwardedHeaders :
              login(auth_login_failures, auth_users, config,
                    [request EXCEPT !.forwarded = forwarded], clock)
                 = login(auth_login_failures, auth_users, config, request,
                         clock)

\* With the trust off, a failed login, the failed login that reaches the
\* limit and a refused login with the right password, each carrying a
\* different header, all from one client address.
ForwardedHeaderIgnoredWitness ==
    /\ ~config.trust_forwarded
    /\ \E i, j, k \in LoginAnswers :
          /\ i < j /\ j < k
          /\ auth_log[i].answer.status_code = 401
          /\ auth_log[j].answer.status_code = 429
          /\ auth_log[k].answer.status_code = 429
          /\ RightCredentials(k)
          /\ auth_log[i].request.client = auth_log[j].request.client
          /\ auth_log[j].request.client = auth_log[k].request.client
          /\ auth_log[i].request.forwarded # auth_log[j].request.forwarded
          /\ auth_log[j].request.forwarded # auth_log[k].request.forwarded
          /\ auth_log[i].request.forwarded # auth_log[k].request.forwarded

RoleAnswers == 1..Len(auth_log)

Answered(i, kind, status_code) ==
    /\ auth_log[i].kind = kind
    /\ auth_log[i].answer.status_code = status_code

\* The stored user of request i could pass a role dependency for allowed.
StoredUserMayAccess(i, allowed) ==
    /\ auth_log[i].stored # NoUser
    /\ ~auth_log[i].stored.password_change_required
    /\ auth_log[i].stored.onboarding_completed
    /\ auth_log[i].stored.role \in allowed

\* No request between j and k completed the onboarding of username.
NotOnboardedBetween(j, k, username) ==
    \A m \in RoleAnswers :
        (j < m /\ m < k /\ auth_log[m].token.sub = username)
            => ~Answered(m, "onboarding-complete", 200)

\* C28: a role-protected endpoint is answered 200 only if the stored user of
\* the token had, when the request arrived, no password change required, the
\* onboarding completed and an allowed role; onboarding completion is refused
\* while a password change is required; an onboarding reset succeeds only
\* for a stored admin, and after it every access with a token of the reset
\* user, issued before the reset or not, is refused until that user
\* completes the onboarding again.
AccessNeedsStoredFlags ==
    /\ \A i \in RoleAnswers :
          /\ Answered(i, "access", 200)
                => StoredUserMayAccess(i, auth_log[i].named)
          /\ (auth_log[i].kind = "onboarding-complete"
                /\ auth_log[i].stored.password_change_required)
                => Answered(i, "onboarding-complete", 403)
          /\ Answered(i, "onboarding-reset", 200)
                => StoredUserMayAccess(i, {"admin"})
    /\ \A j, k \in RoleAnswers :
          (/\ j < k
           /\ Answered(j, "onboarding-reset", 200)
           /\ auth_log[k].kind = "access"
           /\ auth_log[k].token.sub = auth_log[j].named
           /\ NotOnboardedBetween(j, k, auth_log[j].named))
              => Answered(k, "access", 403)

\* A token issued to the nurse while onboarded, then an admin's reset of the
\* nurse's onboarding, then a staff endpoint refused to that token.
AccessNeedsStoredFlagsWitness ==
    \E i, j, k \in RoleAnswers :
        /\ i < j /\ j < k
        /\ auth_log[i].issued.sub = "nurse"
        /\ auth_log[i].issued.onboarding_completed
        /\ ~auth_log[i].issued.pwd_reset_required
        /\ Answered(j, "onboarding-reset", 200)
        /\ auth_log[j].named = "nurse"
        /\ Answered(k, "access", 403)
        /\ auth_log[k].token = auth_log[i].issued
        /\ "nurse" \in auth_log[k].named

ViewsAnswered == answer.kind = "views"

Digits(text) == SelectSeq(text, LAMBDA ch : ch \in DigitChars)

LastFourDigits(text) ==
    IF Len(Digits(text)) < 4 THEN <<>>
    ELSE [i \in 1..4 |-> Digits(text)[Len(Digits(text)) - 4 + i]]

\* The role is neither admin nor nurse once trimmed and lower-cased.
OtherRole(role) == role \notin {"admin", " Admin", "nurse"}

\* C29: for operations and every role other than admin and nurse the triage
\* rows of the audit view hold no phone and no symptoms and the audit rows
\* no payload, and the view is the same for two stores that differ only in
\* those fields; for nurse the phone shown carries no digits but the last
\* four of the stored phone; for every role but admin the phone, where
\* shown, is not the stored one, and admin is shown the stored phone.
AuditViewIsRoleScoped ==
    ViewsAnswered =>
        /\ OtherRole(probe.role) =>
              /\ \A i \in DOMAIN answer.view.triage :
                    {"phone", "symptoms"}
                        \cap DOMAIN answer.view.triage[i] = {}
              /\ \A i \in DOMAIN answer.view.audit_log :
                    "payload" \notin DOMAIN answer.view.audit_log[i]
              /\ answer.view = answer.other_view
        /\ probe.role = "nurse" =>
              /\ Digits(answer.view.triage[1].phone)
                    = LastFourDigits(probe.phone)
              /\ Len(answer.view.triage[1].phone)
                    - Len(Digits(answer.view.triage[1].phone)) >= 1
        /\ probe.role \in {"admin", " Admin"} =>
              answer.view.triage[1].phone = probe.phone
        /\ probe.role \notin {"admin", " Admin"} =>
              \A i \in DOMAIN answer.view.triage :
                 "phone" \in DOMAIN answer.view.triage[i]
                     => answer.view.triage[i].phone # probe.phone

\* The view of operations taken on two stores whose phone, symptoms and
\* payload all differ.
AuditViewIsRoleScopedWitness ==
    /\ ViewsAnswered
    /\ probe.role = "operations"
    /\ probe.phone # probe.other_phone
    /\ probe.phone # <<>>
    /\ probe.symptoms # probe.other_symptoms
    /\ probe.payload # probe.other_payload
    /\ answer.view.triage # <<>>
    /\ answer.view.audit_log # <<>>

\* C31: the slot a call returning BOOKED or PREEMPTED assigns to the incoming
\* case starts no earlier than now and no later than windowEnd.
AssignedSlotInsideWindow ==
    (Called /\ result.status \in {"BOOKED", "PREEMPTED"}) =>
        /\ call.now <= StartOf(pre, result.slot_id)
        /\ StartOf(pre, result.slot_id) <= WindowEnd

\* The calls of the two nurses that have booked a slot for queue item k.
BookedFromQueue(k) ==
    {p \in Procs : /\ procs[p].pc \in {"booked", "done"}
                   /\ procs[p].req.queue_id = k
                   /\ procs[p].booked.status
                        \in {"BOOKED", "BOOKED_FALLBACK", "PREEMPTED"}}

\* C32: a queue item produces at most one appointment: of two concurrent
\* book_from_queue calls for one PENDING item at most one books a slot for
\* the item's triage event, and the other ends rejected as not pending.
QueueItemBooksOnce ==
    \A k \in DOMAIN nurse_queue :
        /\ Cardinality(BookedFromQueue(k)) <= 1
        /\ Cardinality({a \in DOMAIN appointments :
                           appointments[a].triage_event_id
                              = nurse_queue[k].triage_event_id}) <= 1
        /\ \A p \in BookedFromQueue(k), q \in Procs :
              (q # p /\ procs[q].pc = "done" /\ procs[q].req.queue_id = k) =>
                  procs[q].error = Text("Queue item is not pending.")

\* C33: no case is lost: every triage event an intake has committed has an
\* appointment or a queue item once process_intake has ended, also when its
\* scheduling step raised instead of returning a status.
NoCaseIsLost ==
    \A e \in DOMAIN triage_events :
        \/ \E a \in DOMAIN appointments :
              appointments[a].triage_event_id = e
        \/ \E k \in DOMAIN nurse_queue : nurse_queue[k].triage_event_id = e

\* C34: the booking steps run in a fixed order and the first that succeeds
\* ends the call: book returns BOOKED_FALLBACK, PREEMPTED or ESCALATED only
\* if, when it started, no AVAILABLE slot of the department started within
\* [now, windowEnd], and no appointment is displaced while such a slot exists.
LaterStepsOnlyWithoutFreeSlot ==
    Called =>
        /\ result.status \in {"BOOKED_FALLBACK", "PREEMPTED", "ESCALATED"} =>
              FreeInWindow = {}
        /\ Moved # {} => FreeInWindow = {}
        /\ Len(appointment_activity) > Len(pre.appointment_activity) + 1 =>
              FreeInWindow = {}

\* A preemption in one department while a slot of another department is
\* free inside the window.
LaterStepsOnlyWithoutFreeSlotWitness ==
    /\ Called
    /\ result.status = "PREEMPTED"
    /\ Moved # {}
    /\ FreeSlots(pre, CHOOSE dep \in Departments : dep # call.department,
                 call.now, WindowEnd) # {}

\* C35: a displaced appointment lands on a slot that starts strictly after
\* windowEnd of the preempting call, no later than now + fallbackWindow and
\* strictly later than the slot it held before; so no call makes the slot
\* start of an appointment earlier, and each preemption makes that of the
\* preempted appointment strictly later.
DisplacedMovesLater ==
    Called =>
        /\ \A a \in Moved :
              /\ StartOf(pre, appointments[a].slot_id) > WindowEnd
              /\ StartOf(pre, appointments[a].slot_id) <= FallbackEnd
              /\ StartOf(pre, appointments[a].slot_id)
                    > StartOf(pre, pre.appointments[a].slot_id)
        /\ \A a \in 1..Len(pre.appointments) :
              StartOf(Store, appointments[a].slot_id)
                 >= StartOf(pre, pre.appointments[a].slot_id)
        /\ result.status = "PREEMPTED" =>
              /\ result.preempted_appointment_id \in Moved
              /\ StartOf(Store, appointments[result.preempted_appointment_id].slot_id)
                    > StartOf(pre, pre.appointments[result.preempted_appointment_id].slot_id)

\* An appointment that was displaced before is displaced a second time.
DisplacedMovesLaterWitness ==
    /\ Called
    /\ result.status = "PREEMPTED"
    /\ \E i \in DOMAIN pre.appointment_activity :
          /\ pre.appointment_activity[i].activity_type = "PREEMPTED_OUT"
          /\ pre.appointment_activity[i].appointment_id
                = result.preempted_appointment_id

\* Store d without its newest appointment: the slot it holds is free again
\* and its activity rows are gone.
WithoutNewestAppointment(d) ==
    LET n == Len(d.appointments)
        NotOfNewest(row) == row.appointment_id # n
    IN  [d EXCEPT
            !.appointments = SubSeq(@, 1, n - 1),
            !.slots = [s \in DOMAIN @ |->
                          IF @[s].appointment_id = n
                          THEN [@[s] EXCEPT !.status = "AVAILABLE",
                                            !.appointment_id = NULL]
                          ELSE @[s]],
            !.appointment_activity = SelectSeq(@, NotOfNewest)]

\* Stores that differ from d in slots and appointments of departments other
\* than `department` only: a slot of theirs starts at another time, an
\* appointment of theirs has another urgency, or their newest appointment
\* was never booked.
OtherDepartmentsVaried(d, department) ==
    {[d EXCEPT !.slots[s].start_at = to_db_time(t)] :
        s \in {x \in DOMAIN d.slots : d.slots[x].department # department},
        t \in SlotStarts}
    \cup {[d EXCEPT !.appointments[a].urgency = u] :
            a \in {x \in 1..Len(d.appointments) :
                      d.appointments[x].department # department},
            u \in Urgency}
    \cup (IF /\ Len(d.appointments) > 0
             /\ d.appointments[Len(d.appointments)].department # department
             /\ d.appointments[Len(d.appointments)].preempted_from_appointment_id
                   = NULL
          THEN {WithoutNewestAppointment(d)} ELSE {})

\* What the last call returns on store d.
ResultsOn(d) == {o.result : o \in BookOutcomes(d, config, call)}

\* The last call left slots, appointments and activity rows of the other
\* departments as they were.
OtherDepartmentsUntouched ==
    /\ \A s \in DOMAIN pre.slots :
          pre.slots[s].department # call.department =>
              slots[s] = pre.slots[s]
    /\ \A a \in 1..Len(pre.appointments) :
          pre.appointments[a].department # call.department =>
              appointments[a] = pre.appointments[a]
    /\ SubSeq(appointment_activity, 1, Len(pre.appointment_activity))
          = pre.appointment_activity
    /\ \A i \in (Len(pre.appointment_activity) + 1)..Len(appointment_activity) :
          appointments[appointment_activity[i].appointment_id].department
             = call.department

\* C36 as stated: a book call for one department changes no slot,
\* appointment or activity record of another department, and its result is
\* the same whatever the state of the other departments' slots and
\* appointments.
BookIgnoresOtherDepartments ==
    Called =>
        /\ OtherDepartmentsUntouched
        /\ \A v \in OtherDepartmentsVaried(pre, call.department) :
              result \in ResultsOn(v)

\* C36: a book call for one department changes no slot, appointment or
\* activity record of another department, and the status, slot, slot start,
\* note and displaced appointment of its result are the same whatever the
\* state of the other departments' slots and appointments; the appointment
\* id it returns counts the appointments of all departments.
BookIgnoresOtherDepartmentsButForIds ==
    Called =>
        /\ OtherDepartmentsUntouched
        /\ \A v \in OtherDepartmentsVaried(pre, call.department) :
              \E r \in ResultsOn(v) :
                  /\ [r EXCEPT !.appointment_id = result.appointment_id]
                        = result
                  /\ r.appointment_id = NULL <=> result.appointment_id = NULL
                  /\ r.appointment_id # NULL =>
                        r.appointment_id = Len(v.appointments) + 1

\* A preemption in one department when the newest appointment on file is
\* one of another department.
BookIgnoresOtherDepartmentsWitness ==
    /\ Called
    /\ result.status = "PREEMPTED"
    /\ WithoutNewestAppointment(pre)
          \in OtherDepartmentsVaried(pre, call.department)

BookedSlots(d) == {s \in DOMAIN d.slots : d.slots[s].status = "BOOKED"}

\* C37: there are as many appointments as BOOKED slots; a call returning
\* BOOKED, BOOKED_FALLBACK or PREEMPTED creates exactly one appointment and
\* makes exactly one more slot BOOKED, and its result carries the id of that
\* appointment and of the slot it holds; a call returning ESCALATED creates
\* no appointment, books no slot and carries neither id.
AppointmentsCountBookedSlots ==
    /\ Len(appointments) = Cardinality(BookedSlots(Store))
    /\ (Called /\ result.status \in {"BOOKED", "BOOKED_FALLBACK", "PREEMPTED"}) =>
          /\ Len(appointments) = Len(pre.appointments) + 1
          /\ Cardinality(BookedSlots(Store))
                = Cardinality(BookedSlots(pre)) + 1
          /\ result.appointment_id = Len(appointments)
          /\ result.slot_id \in DOMAIN slots
          /\ appointments[result.appointment_id].slot_id = result.slot_id
          /\ slots[result.slot_id].appointment_id = result.appointment_id
    /\ (Called /\ result.status = "ESCALATED") =>
          /\ Len(appointments) = Len(pre.appointments)
          /\ BookedSlots(Store) = BookedSlots(pre)
          /\ result.appointment_id = NULL
          /\ result.slot_id = NULL

\* A preemption that fills the last free slot of the inventory.
AppointmentsCountBookedSlotsWitness ==
    /\ Called
    /\ result.status = "PREEMPTED"
    /\ BookedSlots(Store) = DOMAIN slots
    /\ Len(appointments) = NumSlots

\* The intake that has just ended got its triage result from the fallback
\* reasoner after the primary raised.
FallbackIntakeEnded ==
    /\ op.name = "process_intake"
    /\ "primary" \in DOMAIN op.req
    /\ op.req.primary.raised

\* C38: with the default confidence threshold of 0.80 an intake whose triage
\* result came from the fallback reasoner after a primary failure is never
\* routed AUTO_BOOK, whatever the two request flags: it is routed
\* QUEUE_REVIEW, or ESCALATE for EMERGENCY, no slot is booked for it and it
\* ends as a PENDING queue item.
FallbackNeverAutoBooks ==
    FallbackIntakeEnded =>
        /\ config.auto_book_confidence_threshold = 80
        /\ op.routing.action # "AUTO_BOOK"
        /\ op.routing.action = IF op.req.triage_result.urgency = "EMERGENCY"
                               THEN "ESCALATE" ELSE "QUEUE_REVIEW"
        /\ routing_decisions[Len(routing_decisions)].action = op.routing.action
        /\ call = NoCall
        /\ appointments = <<>>
        /\ op.queue_id \in DOMAIN nurse_queue
        /\ nurse_queue[op.queue_id].triage_event_id = op.ids.triage_event_id
        /\ nurse_queue[op.queue_id].status = "PENDING"

\* The fallback was as confident as it can be and asked for no human, and
\* the request switched both human-routing rules off.
FallbackNeverAutoBooksWitness ==
    /\ FallbackIntakeEnded
    /\ op.req.fallback_result.confidence = 99
    /\ ~op.req.fallback_result.human_routing_flag
    /\ op.req.auto_book_high_urgency
    /\ ~op.req.always_route_when_model_requests_human
    /\ op.req.triage_result.confidence = 79
    /\ op.queue_id # NULL

\* Login i was refused in the second of the pair's last recorded failure:
\* the whole lockout is still ahead.
LockoutStartsAt(i) ==
    /\ Refused(i)
    /\ auth_log[i].answer.retry_after = LoginLockout

\* C39: once a (username, source address) pair is locked out, its attempts
\* stay refused until login_lockout_seconds have passed since its last
\* recorded failed attempt, also with a window shorter than the lockout, and
\* attempts made during the lockout do not move its end.
LockoutLastsItsFullLength ==
    /\ \A i, j \in LoginAnswers :
          (/\ i < j
           /\ SamePair(i, j)
           /\ LockoutStartsAt(i)
           /\ auth_log[j].at < auth_log[i].at + LoginLockout)
              => Refused(j)
    /\ \A i, j \in LoginAnswers :
          (/\ i < j
           /\ SamePair(i, j)
           /\ Refused(i)
           /\ Refused(j)
           /\ \A k \in LoginAnswers :
                 (i < k /\ k < j /\ SamePair(i, k)) => Refused(k))
              => auth_log[i].at + auth_log[i].answer.retry_after
                    = auth_log[j].at + auth_log[j].answer.retry_after

\* The password changes and admin resets that went through.
PasswordsSet ==
    {k \in 1..Len(auth_log) :
        /\ auth_log[k].kind \in {"change-password", "admin-reset"}
        /\ auth_log[k].answer = Granted}

\* Request i presented a refresh token of the user of k that was on file
\* when k arrived.
PresentsOlderToken(k, i) ==
    /\ k < i
    /\ auth_log[i].kind = "refresh"
    /\ auth_log[i].token <= auth_log[k].before
    /\ auth_refresh_sessions[auth_log[i].token].username = auth_log[k].username

\* Since k the user's password was not set again and no token of the family
\* of the token k issued was presented.
PairUntouchedSince(k) ==
    \A i \in 1..Len(auth_log) :
        i > k =>
            /\ ~(i \in PasswordsSet /\ auth_log[i].username = auth_log[k].username)
            /\ ~(/\ auth_log[i].kind = "refresh"
                 /\ auth_refresh_sessions[auth_log[i].token].family_id
                       = auth_refresh_sessions[auth_log[k].issued].family_id)

\* C40: after a password change or an admin's reset every refresh token
\* issued to the user before it is rejected by refresh, and the refresh
\* token issued together with a password change stays usable, also after
\* one of the old tokens has been presented.
PasswordChangeRevokesOldTokens ==
    /\ \A k \in PasswordsSet, i \in 1..Len(auth_log) :
          PresentsOlderToken(k, i) =>
              /\ auth_log[i].answer.status_code = 401
              /\ auth_log[i].issued = NULL
    /\ \A k \in PasswordsSet :
          (auth_log[k].kind = "change-password" /\ PairUntouchedSince(k)) =>
              /\ ~auth_refresh_sessions[auth_log[k].issued].revoked
              /\ clock < auth_refresh_sessions[auth_log[k].issued].expires_at_epoch
                    => rotate_refresh_token(auth_refresh_sessions, auth_users,
                          auth_log[k].issued,
                          [id |-> auth_log[k].issued]
                             @@ auth_refresh_sessions[auth_log[k].issued],
                          clock, clock).answer = Granted

\* A user logs in and changes the password, the token of the login is
\* presented and refused as reused, and the token issued with the password
\* change is then exchanged.
PasswordChangeRevokesOldTokensWitness ==
    \E k \in PasswordsSet, i, j \in 1..Len(auth_log) :
        /\ auth_log[k].kind = "change-password"
        /\ PresentsOlderToken(k, i)
        /\ auth_log[i].answer.detail = "Refresh token reuse detected."
        /\ i < j
        /\ auth_log[j].kind = "refresh"
        /\ auth_log[j].token = auth_log[k].issued
        /\ auth_log[j].answer = Granted

InTransaction(p) == procs[p].pc \in {"locked", "found", "written"}

\* C4: concurrent calls hold the write lock from before the first search to
\* the commit or rollback: at most one call is inside its transaction, the
\* store a call searched is still the committed store whenever it writes or
\* commits, and no two appointments hold the same slot.
ExclusiveWriteTransactions ==
    /\ \A p, q \in Procs : (InTransaction(p) /\ InTransaction(q)) => p = q
    /\ \A p \in Procs : InTransaction(p) => lock = p
    /\ \A p \in Procs :
          procs[p].pc \in {"found", "written"} => procs[p].seen = Store
    /\ \A a, b \in 1..Len(appointments) :
          a # b => appointments[a].slot_id # appointments[b].slot_id

\* One caller has booked a slot in its transaction and not yet committed
\* while another caller, whose search would find the same slot, waits for
\* the lock.
ExclusiveWriteTransactionsWitness ==
    \E p, q \in Procs :
        /\ p # q
        /\ procs[p].pc = "written"
        /\ procs[p].plan.kind = "BOOKED"
        /\ procs[q].pc = "called"
        /\ procs[p].plan \in BookPlans(Store, config, procs[q].c)

====
